---- MODULE Spec2Model ----
(***************************************************************************)
(* Lexical matching and morphological normalization engine of the Turkish  *)
(* idiom detector: src/src/data/normalize_tr.py (normalizer, lemmatizer,   *)
(* rule-based stemmers) and src/src/lexicon/matcher.py (lexicon matcher).  *)
(*                                                                         *)
(* A Python str is a sequence of characters; a character is a one-letter   *)
(* string.  Characters outside ASCII are written with a caret:             *)
(*   "c^" c-cedilla   "g^" soft g   "i^" dotless i   "o^" o-umlaut         *)
(*   "s^" s-cedilla   "u^" u-umlaut "I^" capital dotted I (U+0130)         *)
(*   "^"  combining dot above (U+0307)                                     *)
(***************************************************************************)
EXTENDS Integers, Sequences, FiniteSets, TLC

----------------------------------------------------------------------------
(* Sequence helpers *)

Range(s) == {s[i] : i \in 1..Len(s)}

\* str.endswith(suffix)
EndsWith(word, suffix) ==
  /\ Len(suffix) <= Len(word)
  /\ SubSeq(word, Len(word) - Len(suffix) + 1, Len(word)) = suffix

\* word[:-n] for 1 <= n
DropLast(word, n) == SubSeq(word, 1, Len(word) - n)

\* every list holding each element of the finite set S exactly once: list(S)
\* of a Python set iterates in an order the language does not fix
Orderings(S) ==
  {f \in [1..Cardinality(S) -> S] : \A i, j \in 1..Cardinality(S) : f[i] = f[j] => i = j}

----------------------------------------------------------------------------
(* Rule-based fallback stemmer (normalize_tr.py) *)

\* noun_suffixes of _simple_noun_stem
noun_suffixes ==
  <<
     <<"l", "a", "r", "i^", "n", "d", "a", "n">>, <<"l", "e", "r", "i", "n", "d", "e", "n">>, <<"l", "a", "r", "i^", "n", "d", "a">>, <<"l", "e", "r", "i", "n", "d", "e">>,
     <<"l", "a", "r", "i^", "n", "a">>, <<"l", "e", "r", "i", "n", "e">>, <<"l", "a", "r", "i^", "n", "i^">>, <<"l", "e", "r", "i", "n", "i">>,
     <<"l", "a", "r", "d", "a", "n">>, <<"l", "e", "r", "d", "e", "n">>, <<"l", "a", "r", "d", "a">>, <<"l", "e", "r", "d", "e">>,
     <<"l", "a", "r", "a">>, <<"l", "e", "r", "e">>, <<"l", "a", "r", "i^">>, <<"l", "e", "r", "i">>,
     <<"i^", "n", "d", "a", "n">>, <<"i", "n", "d", "e", "n">>, <<"u", "n", "d", "a", "n">>, <<"u^", "n", "d", "e", "n">>,
     <<"i^", "m", "d", "a", "n">>, <<"i", "m", "d", "e", "n">>, <<"u", "m", "d", "a", "n">>, <<"u^", "m", "d", "e", "n">>,
     <<"i^", "n", "d", "a">>, <<"i", "n", "d", "e">>, <<"u", "n", "d", "a">>, <<"u^", "n", "d", "e">>,
     <<"i^", "m", "d", "a">>, <<"i", "m", "d", "e">>, <<"u", "m", "d", "a">>, <<"u^", "m", "d", "e">>,
     <<"i^", "n", "a">>, <<"i", "n", "e">>, <<"u", "n", "a">>, <<"u^", "n", "e">>,
     <<"i^", "m", "a">>, <<"i", "m", "e">>, <<"u", "m", "a">>, <<"u^", "m", "e">>,
     <<"i^", "n", "i^">>, <<"i", "n", "i">>, <<"u", "n", "u">>, <<"u^", "n", "u^">>,
     <<"i^", "m", "i^">>, <<"i", "m", "i">>, <<"u", "m", "u">>, <<"u^", "m", "u^">>,
     <<"d", "a", "n">>, <<"d", "e", "n">>, <<"t", "a", "n">>, <<"t", "e", "n">>,
     <<"n", "d", "a", "n">>, <<"n", "d", "e", "n">>, <<"d", "a">>, <<"d", "e">>,
     <<"t", "a">>, <<"t", "e">>, <<"n", "d", "a">>, <<"n", "d", "e">>,
     <<"n", "a">>, <<"n", "e">>, <<"y", "a">>, <<"y", "e">>,
     <<"a">>, <<"e">>, <<"l", "a", "r">>, <<"l", "e", "r">>,
     <<"i^", "m">>, <<"i", "m">>, <<"u", "m">>, <<"u^", "m">>,
     <<"i^", "n">>, <<"i", "n">>, <<"u", "n">>, <<"u^", "n">>,
     <<"i^", "m", "i^", "z">>, <<"i", "m", "i", "z">>, <<"u", "m", "u", "z">>, <<"u^", "m", "u^", "z">>,
     <<"i^", "n", "i^", "z">>, <<"i", "n", "i", "z">>, <<"u", "n", "u", "z">>, <<"u^", "n", "u^", "z">>,
     <<"n", "i^">>, <<"n", "i">>, <<"n", "u">>, <<"n", "u^">>,
     <<"y", "i^">>, <<"y", "i">>, <<"y", "u">>, <<"y", "u^">>,
     <<"s", "i^">>, <<"s", "i">>, <<"s", "u">>, <<"s", "u^">>,
     <<"i^">>, <<"i">>, <<"u">>, <<"u^">>
  >>

\* variant of _simple_noun_stem that stops at the first suffix of the table
\* that it strips
_simple_noun_stem_first(word) ==
  IF Len(word) < 3 THEN {word}
  ELSE LET at == {i \in 1..Len(noun_suffixes) :
                    /\ EndsWith(word, noun_suffixes[i])
                    /\ Len(word) > Len(noun_suffixes[i]) + 1}
       IN IF at = {} THEN {word}
          ELSE {DropLast(word, Len(noun_suffixes[CHOOSE i \in at : \A j \in at : i <= j]))}

\* variant of _simple_noun_stem that keeps stems of four characters or more
_simple_noun_stem_long(word) ==
  IF Len(word) < 3 THEN {word}
  ELSE LET stems == {DropLast(word, Len(suffix)) :
                       suffix \in {s \in Range(noun_suffixes) :
                                     /\ EndsWith(word, s)
                                     /\ Len(word) > Len(s) + 1
                                     /\ Len(DropLast(word, Len(s))) >= 4}}
       IN IF stems = {} THEN {word} ELSE stems

\* _simple_noun_stem: the set `stems` that the function returns as a list
_simple_noun_stem(word) ==
  IF Len(word) < 3 THEN {word}
  ELSE LET stems == {DropLast(word, Len(suffix)) :
                       suffix \in {s \in Range(noun_suffixes) :
                                     /\ EndsWith(word, s)
                                     /\ Len(word) > Len(s) + 1
                                     /\ Len(DropLast(word, Len(s))) >= 2}}
       IN IF stems = {} THEN {word} ELSE stems

\* verb_suffixes of _simple_verb_stem
verb_suffixes ==
  <<
     <<"i^", "y", "o", "r", "d", "u", "m">>, <<"i", "y", "o", "r", "d", "u", "m">>, <<"u", "y", "o", "r", "d", "u", "m">>, <<"u^", "y", "o", "r", "d", "u", "m">>,
     <<"i^", "y", "o", "r", "s", "u", "n">>, <<"i", "y", "o", "r", "s", "u", "n">>, <<"u", "y", "o", "r", "s", "u", "n">>, <<"u^", "y", "o", "r", "s", "u", "n">>,
     <<"i^", "y", "o", "r", "u", "z">>, <<"i", "y", "o", "r", "u", "z">>, <<"u", "y", "o", "r", "u", "z">>, <<"u^", "y", "o", "r", "u", "z">>,
     <<"i^", "y", "o", "r", "l", "a", "r">>, <<"i", "y", "o", "r", "l", "a", "r">>, <<"u", "y", "o", "r", "l", "a", "r">>, <<"u^", "y", "o", "r", "l", "a", "r">>,
     <<"i^", "y", "o", "r", "u", "m">>, <<"i", "y", "o", "r", "u", "m">>, <<"u", "y", "o", "r", "u", "m">>, <<"u^", "y", "o", "r", "u", "m">>,
     <<"i^", "y", "o", "r">>, <<"i", "y", "o", "r">>, <<"u", "y", "o", "r">>, <<"u^", "y", "o", "r">>,
     <<"d", "i^", "l", "a", "r">>, <<"d", "i", "l", "e", "r">>, <<"d", "u", "l", "a", "r">>, <<"d", "u^", "l", "e", "r">>,
     <<"t", "i^", "l", "a", "r">>, <<"t", "i", "l", "e", "r">>, <<"t", "u", "l", "a", "r">>, <<"t", "u^", "l", "e", "r">>,
     <<"d", "i^", "k">>, <<"d", "i", "k">>, <<"d", "u", "k">>, <<"d", "u^", "k">>,
     <<"t", "i^", "k">>, <<"t", "i", "k">>, <<"t", "u", "k">>, <<"t", "u^", "k">>,
     <<"d", "i^", "m">>, <<"d", "i", "m">>, <<"d", "u", "m">>, <<"d", "u^", "m">>,
     <<"t", "i^", "m">>, <<"t", "i", "m">>, <<"t", "u", "m">>, <<"t", "u^", "m">>,
     <<"d", "i^", "n">>, <<"d", "i", "n">>, <<"d", "u", "n">>, <<"d", "u^", "n">>,
     <<"t", "i^", "n">>, <<"t", "i", "n">>, <<"t", "u", "n">>, <<"t", "u^", "n">>,
     <<"d", "i^">>, <<"d", "i">>, <<"d", "u">>, <<"d", "u^">>,
     <<"t", "i^">>, <<"t", "i">>, <<"t", "u">>, <<"t", "u^">>,
     <<"a", "c", "a", "g^", "i^", "m">>, <<"e", "c", "e", "g^", "i", "m">>, <<"a", "c", "a", "k", "s", "i^", "n">>, <<"e", "c", "e", "k", "s", "i", "n">>,
     <<"a", "c", "a", "g^", "i^", "z">>, <<"e", "c", "e", "g^", "i", "z">>, <<"a", "c", "a", "k", "l", "a", "r">>, <<"e", "c", "e", "k", "l", "e", "r">>,
     <<"a", "c", "a", "k">>, <<"e", "c", "e", "k">>, <<"m", "i^", "s^", "l", "a", "r">>, <<"m", "i", "s^", "l", "e", "r">>,
     <<"m", "u", "s^", "l", "a", "r">>, <<"m", "u^", "s^", "l", "e", "r">>, <<"m", "i^", "s^", "i^", "m">>, <<"m", "i", "s^", "i", "m">>,
     <<"m", "u", "s^", "u", "m">>, <<"m", "u^", "s^", "u^", "m">>, <<"m", "i^", "s^", "s", "i^", "n">>, <<"m", "i", "s^", "s", "i", "n">>,
     <<"m", "u", "s^", "s", "u", "n">>, <<"m", "u^", "s^", "s", "u^", "n">>, <<"m", "i^", "s^">>, <<"m", "i", "s^">>,
     <<"m", "u", "s^">>, <<"m", "u^", "s^">>, <<"i^", "r", "l", "a", "r">>, <<"i", "r", "l", "e", "r">>,
     <<"u", "r", "l", "a", "r">>, <<"u^", "r", "l", "e", "r">>, <<"a", "r", "l", "a", "r">>, <<"e", "r", "l", "e", "r">>,
     <<"i^", "r", "i^", "m">>, <<"i", "r", "i", "m">>, <<"u", "r", "u", "m">>, <<"u^", "r", "u^", "m">>,
     <<"a", "r", "i^", "m">>, <<"e", "r", "i", "m">>, <<"i^", "r", "s", "i^", "n">>, <<"i", "r", "s", "i", "n">>,
     <<"u", "r", "s", "u", "n">>, <<"u^", "r", "s", "u^", "n">>, <<"a", "r", "s", "i^", "n">>, <<"e", "r", "s", "i", "n">>,
     <<"i^", "r">>, <<"i", "r">>, <<"u", "r">>, <<"u^", "r">>,
     <<"a", "r">>, <<"e", "r">>, <<"a", "y", "i^", "m">>, <<"e", "y", "i", "m">>,
     <<"a", "l", "i^", "m">>, <<"e", "l", "i", "m">>, <<"a", "s", "i^", "n">>, <<"e", "s", "i", "n">>,
     <<"a", "l", "a", "r">>, <<"e", "l", "e", "r">>, <<"s", "i^", "n">>, <<"s", "i", "n">>,
     <<"s", "u", "n">>, <<"s", "u^", "n">>, <<"i^", "n", "i^", "z">>, <<"i", "n", "i", "z">>,
     <<"u", "n", "u", "z">>, <<"u^", "n", "u^", "z">>, <<"s", "i^", "n", "l", "a", "r">>, <<"s", "i", "n", "l", "e", "r">>,
     <<"s", "u", "n", "l", "a", "r">>, <<"s", "u^", "n", "l", "e", "r">>, <<"m", "a", "k">>, <<"m", "e", "k">>,
     <<"m", "a">>, <<"m", "e">>, <<"i^", "s^">>, <<"i", "s^">>,
     <<"u", "s^">>, <<"u^", "s^">>
  >>

\* the characters of 'aıou' (back vowels)
BackVowels == {"a", "i^", "o", "u"}

\* the infinitive form _simple_verb_stem adds for a stem
Infinitive(stem) ==
  IF stem[Len(stem)] \in BackVowels THEN stem \o <<"m", "a", "k">>
                                    ELSE stem \o <<"m", "e", "k">>

\* _simple_verb_stem: the set `stems` that the function returns as a list
_simple_verb_stem(word) ==
  IF Len(word) < 4 THEN {word}
  ELSE LET cut == {DropLast(word, Len(suffix)) :
                     suffix \in {s \in Range(verb_suffixes) :
                                   /\ EndsWith(word, s)
                                   /\ Len(word) > Len(s) + 2
                                   /\ Len(DropLast(word, Len(s))) >= 2}}
           stems == cut \cup {Infinitive(stem) : stem \in cut}
       IN IF stems = {} THEN {word} ELSE stems

\* _simple_stem: the set `stems` that the function returns as a list
_simple_stem(word) ==
  IF Len(word) < 3 THEN {word}
  ELSE _simple_noun_stem(word) \cup _simple_verb_stem(word) \cup {word}

----------------------------------------------------------------------------
(* Optional values: None is the empty tuple, Some(v) the one-element tuple *)

None == <<>>
Some(v) == <<v>>

----------------------------------------------------------------------------
(* Characters and str.lower() *)

\* str.lower() of one character; U+0130 lowers to "i" + U+0307 (two characters)
LowerChar(c) ==
  CASE c = "A" -> <<"a">>
    [] c = "B" -> <<"b">>
    [] c = "D" -> <<"d">>
    [] c = "G" -> <<"g">>
    [] c = "G^" -> <<"g^">>
    [] c = "I" -> <<"i">>
    [] c = "I^" -> <<"i", "^">>
    [] c = "K" -> <<"k">>
    [] c = "L" -> <<"l">>
    [] c = "N" -> <<"n">>
    [] c = "O^" -> <<"o^">>
    [] c = "S" -> <<"s">>
    [] c = "T" -> <<"t">>
    [] c = "U" -> <<"u">>
    [] c = "Y" -> <<"y">>
    [] c = "Z" -> <<"z">>
    [] OTHER -> <<c>>

\* str.lower()
RECURSIVE Lower(_)
Lower(s) == IF s = <<>> THEN <<>> ELSE LowerChar(Head(s)) \o Lower(Tail(s))

----------------------------------------------------------------------------
(* Bounds and inputs of the lemmatizer *)

\* cap of the calls counter between two resets
MaxCalls == 1
\* analyzer threads that can be alive at once
MaxThreads == 2

W_empty == <<>>
W_Idot == <<"I^">>
W_idot == <<"i", "^">>
W_goz == <<"g", "o^", "z">>
W_Goz == <<"G", "o^", "z">>
W_gozleri == <<"g", "o^", "z", "l", "e", "r", "i">>
W_Gozleri == <<"G", "o^", "z", "l", "e", "r", "i">>
W_gozu == <<"g", "o^", "z", "u^">>
W_Gozu == <<"G", "o^", "z", "u^">>
W_dondu == <<"d", "o^", "n", "d", "u^">>
W_donmek == <<"d", "o^", "n", "m", "e", "k">>

\* the words get_all_lemmas is called with
Words == {W_empty, W_Idot, W_idot, W_gozleri, W_Gozleri}

\* what analyzer.lemmatize(word) can give as results[0][1]: a list of lemmas,
\* the empty list standing for no analyses or no lemmas
ZeyrekLemmas(word) ==
  IF word = W_gozleri
  THEN {<<>>, <<word>>, <<word, word>>, <<W_Goz>>, <<W_goz, W_goz>>}
  ELSE IF word = W_gozu THEN {<<>>, <<W_goz>>}
  ELSE IF word \in {W_dondu, W_donmek} THEN {<<>>, <<W_donmek>>}
  ELSE {<<>>, <<word>>, <<word, word>>}

----------------------------------------------------------------------------
(* State *)

VARIABLES
  _lemma_cache,       \* module global: word -> list of lemmas
  _analyzer,          \* module global: "None", "MorphAnalyzer" or "False"
  _zeyrek_available,  \* module global: "None", "True" or "False"
  _zeyrek_stats,      \* module global: the five counters
  pc,                 \* the caller: "idle", "join" (in thread.join), "status",
                      \* "match", "remove_overlaps", "sweep", "normalize",
                      \* "normalized", "flexible", "stem" or "concurrent"
  main,               \* where the caller's own thread is in check_zeyrek_status
  word_lower,         \* local of get_all_lemmas, while the call runs
  thread,             \* where the analyzer thread of the running call is
  abandoned,          \* how many threads of calls that timed out are at each place
  result,             \* result[0] of _zeyrek_lemmatize_with_timeout
  exception,          \* exception[0] of _zeyrek_lemmatize_with_timeout
  zeyrek_result,      \* local of get_all_lemmas, as the call that just returned left it
  used_fallback,      \* local of get_all_lemmas, as the call that just returned left it
  ret,                \* what the call that just returned has returned
  lexicon,            \* LexiconMatcher.normalized_expressions: the keys, in order
  text,               \* argument of the match() call that just returned
  use_token_window,   \* argument of the match() call that just returned
  matches,            \* what match() or _remove_overlaps has returned
  candidates,         \* argument `matches` of a _remove_overlaps call
  todo,               \* _remove_overlaps: the sorted matches the loop has yet to see
  filtered,           \* _remove_overlaps: local `filtered`
  normalize_call,     \* a normalize_turkish_text call: its arguments and what it returned
  held_stats,         \* the object a get_zeyrek_stats call returned, held by the caller
  flexible_call,      \* a _flexible_tokens_match call: its arguments, its local
                      \* `matches` at the return and what it returned
  stem_call,          \* a call of the three stemmers on one word: the word and
                      \* the stems each returned
  callers,            \* the threads that call get_all_lemmas at the same time:
                      \* where each is, what it has read and counted
  window_size         \* argument of the match() call

lstate == <<_lemma_cache, _analyzer, _zeyrek_available, _zeyrek_stats, main,
            word_lower, thread, abandoned, result, exception, zeyrek_result,
            used_fallback, ret>>

lvars == <<lstate, pc>>

mvars == <<lexicon, text, use_token_window, matches, candidates, todo, filtered>>

cvars == <<normalize_call, held_stats, flexible_call, stem_call, callers, window_size>>

vars == <<lvars, mvars, cvars>>

ZeroStats == [calls |-> 0, successes |-> 0, timeouts |-> 0, errors |-> 0, fallbacks |-> 0]

\* the places of a thread that runs _get_analyzer and analyzer.lemmatize
Places == {"start", "init", "init_ok", "init_fail", "lemmatize"}

\* the threads of earlier calls that are still alive
Alive == abandoned["start"] + abandoned["init"] + abandoned["init_ok"]
           + abandoned["init_fail"] + abandoned["lemmatize"]

\* the module globals of normalize_tr.py after import, no call running
LemmatizerState ==
  /\ _lemma_cache = <<>>
  /\ _analyzer = "None"
  /\ _zeyrek_available = "None"
  /\ _zeyrek_stats = ZeroStats
  /\ main = "none"
  /\ word_lower = <<>>
  /\ thread = "none"
  /\ abandoned = [p \in Places |-> 0]
  /\ result = None
  /\ exception = None
  /\ zeyrek_result = None
  /\ used_fallback = FALSE
  /\ ret = None

LemmatizerInit == LemmatizerState /\ pc = "idle"

\* no matcher call has returned, no _remove_overlaps call is running
MatcherInit ==
  /\ text = <<>>
  /\ use_token_window = FALSE
  /\ matches = <<>>
  /\ candidates = <<>>
  /\ todo = <<>>
  /\ filtered = <<>>

\* match(text, use_token_window=False, window_size=5): the default
DefaultWindowSize == 5

\* no normalize_turkish_text call has been made, no statistics are held
CallersInit ==
  /\ normalize_call = None
  /\ held_stats = None
  /\ flexible_call = None
  /\ stem_call = None
  /\ callers = None
  /\ window_size = DefaultWindowSize

\* the arguments and the return value of the match() call before are gone
ForgetMatch ==
  /\ text' = <<>>
  /\ use_token_window' = FALSE
  /\ matches' = <<>>
  /\ UNCHANGED <<lexicon, candidates, todo, filtered>>

----------------------------------------------------------------------------
(* Lemmatizer: get_all_lemmas and _zeyrek_lemmatize_with_timeout *)

\* dict[key] = value
Put(dict, key, value) ==
  [k \in DOMAIN dict \cup {key} |-> IF k = key THEN value ELSE dict[k]]

\* "Remove duplicates while preserving order" of get_all_lemmas
RECURSIVE unique_lemmas(_)
unique_lemmas(lemmas) ==
  IF lemmas = <<>> THEN <<>>
  ELSE LET init == unique_lemmas(SubSeq(lemmas, 1, Len(lemmas) - 1))
           l == lemmas[Len(lemmas)]
       IN IF l \in Range(init) THEN init ELSE Append(init, l)

\* [l.lower() for l in zeyrek_lemmas]
LowerAll(zeyrek_lemmas) == [i \in 1..Len(zeyrek_lemmas) |-> Lower(zeyrek_lemmas[i])]

\* variant of the fallback test that looks for an empty list only
NeedsFallback_empty(lemmas, wl) == lemmas = <<>>

\* "if not lemmas or lemmas == [word_lower]" of get_all_lemmas, lemmas being
\* the list of zeyrek_result (empty when zeyrek_result is None)
NeedsFallback(lemmas, wl) == lemmas = <<>> \/ lemmas = <<wl>>

\* the list get_all_lemmas caches and returns, from zeyrek_result and the
\* list simple_stems of _simple_stem(word_lower)
Lemmas(zres, wl, simple_stems) ==
  LET found == IF zres = None THEN <<>> ELSE zres[1]
      lemmas == IF NeedsFallback(found, wl) THEN found \o simple_stems ELSE found
      unique == unique_lemmas(lemmas)
  IN IF unique = <<>> THEN <<wl>> ELSE unique

Bump(stats, counter) == [stats EXCEPT ![counter] = @ + 1]

\* the locals and the return value of the call before are gone
Forget ==
  /\ zeyrek_result' = None
  /\ used_fallback' = FALSE
  /\ ret' = None

\* variant of the guard that returns list(word), empty for the empty word
ReturnsAtGuard_chars(w) ==
  /\ Len(w) < 2
  /\ ret' = Some(w)
  /\ zeyrek_result' = None
  /\ used_fallback' = FALSE
  /\ UNCHANGED <<_lemma_cache, _analyzer, _zeyrek_available, _zeyrek_stats, pc, main,
                 word_lower, thread, abandoned, result, exception>>

\* get_all_lemmas that returns at its guard: "not word or len(word) < 2"
ReturnsAtGuard(w) ==
  /\ Len(w) < 2
  /\ ret' = Some(<<w>>)
  /\ zeyrek_result' = None
  /\ used_fallback' = FALSE
  /\ UNCHANGED <<_lemma_cache, _analyzer, _zeyrek_available, _zeyrek_stats, pc, main,
                 word_lower, thread, abandoned, result, exception>>

\* variant of the cache hit that counts the call
ReturnsCached_counted(w) ==
  /\ Len(w) >= 2
  /\ Lower(w) \in DOMAIN _lemma_cache
  /\ ret' = Some(_lemma_cache[Lower(w)])
  /\ zeyrek_result' = None
  /\ used_fallback' = FALSE
  /\ _zeyrek_stats' = Bump(_zeyrek_stats, "calls")
  /\ UNCHANGED <<_lemma_cache, _analyzer, _zeyrek_available, pc, main,
                 word_lower, thread, abandoned, result, exception>>

\* get_all_lemmas that returns the cached list
ReturnsCached(w) ==
  /\ Len(w) >= 2
  /\ Lower(w) \in DOMAIN _lemma_cache
  /\ ret' = Some(_lemma_cache[Lower(w)])
  /\ zeyrek_result' = None
  /\ used_fallback' = FALSE
  /\ UNCHANGED <<_lemma_cache, _analyzer, _zeyrek_available, _zeyrek_stats, pc, main,
                 word_lower, thread, abandoned, result, exception>>

\* get_all_lemmas that misses the cache, up to thread.join(timeout) of
\* _zeyrek_lemmatize_with_timeout: the calls counter, the start of the thread
CallsAnalyzer(w) ==
  /\ Len(w) >= 2
  /\ Lower(w) \notin DOMAIN _lemma_cache
  /\ _zeyrek_stats.calls < MaxCalls
  /\ Alive < MaxThreads
  /\ word_lower' = Lower(w)
  /\ _zeyrek_stats' = Bump(_zeyrek_stats, "calls")
  /\ result' = None
  /\ exception' = None
  /\ thread' = "start"
  /\ pc' = "join"
  /\ Forget
  /\ UNCHANGED <<_lemma_cache, _analyzer, _zeyrek_available, main, abandoned>>

\* get_all_lemmas(w), from its first line to its return or, on a cache miss,
\* to the join of the analyzer thread
get_all_lemmas(w) ==
  /\ pc = "idle"
  /\ \/ ReturnsAtGuard(w)
     \/ ReturnsCached(w)
     \/ CallsAnalyzer(w)
  /\ ForgetMatch
  /\ UNCHANGED cvars

\* the rest of get_all_lemmas once _zeyrek_lemmatize_with_timeout has returned
\* zres with the counters stats: fallback decision, deduplication, caching
Finish(zres, stats) ==
  LET fb == NeedsFallback(IF zres = None THEN <<>> ELSE zres[1], word_lower)
  IN \E simple_stems \in Orderings(_simple_stem(word_lower)) :
       /\ zeyrek_result' = zres
       /\ used_fallback' = fb
       /\ _zeyrek_stats' = IF fb THEN Bump(stats, "fallbacks") ELSE stats
       /\ ret' = Some(Lemmas(zres, word_lower, simple_stems))
       /\ _lemma_cache' = Put(_lemma_cache, word_lower,
                              Lemmas(zres, word_lower, simple_stems))
       /\ pc' = "idle"
       /\ thread' = "none"
       /\ word_lower' = <<>>
       /\ result' = None
       /\ exception' = None

\* variant of the join without a timeout: the caller keeps waiting
join_forever ==
  /\ pc = "join"
  /\ thread # "done"
  /\ UNCHANGED vars

\* variant of the timeout that counts an error as well
join_timeout_error ==
  /\ pc = "join"
  /\ thread # "done"
  /\ Finish(None, Bump(Bump(_zeyrek_stats, "timeouts"), "errors"))
  /\ abandoned' = [abandoned EXCEPT ![thread] = @ + 1]
  /\ UNCHANGED <<_analyzer, _zeyrek_available, main>>
  /\ ForgetMatch
  /\ UNCHANGED cvars

\* thread.join(timeout) returns with the thread still alive: a timeout is
\* recorded and the thread is left running
join_timeout ==
  /\ pc = "join"
  /\ thread # "done"
  /\ Finish(None, Bump(_zeyrek_stats, "timeouts"))
  /\ abandoned' = [abandoned EXCEPT ![thread] = @ + 1]
  /\ UNCHANGED <<_analyzer, _zeyrek_available, main>>
  /\ ForgetMatch
  /\ UNCHANGED cvars

\* variant of the counters after the join that counts a missing result as an
\* error
AfterJoin_strict(stats, exc, res) ==
  IF exc # None \/ res = None THEN Bump(stats, "errors")
  ELSE Bump(stats, "successes")

\* the counters after the join of a thread that has ended
AfterJoin(stats, exc, res) ==
  IF exc # None THEN Bump(stats, "errors")
  ELSE IF res # None THEN Bump(stats, "successes")
  ELSE stats

\* thread.join(timeout) returns with the thread ended
join_finished ==
  /\ pc = "join"
  /\ thread = "done"
  /\ Finish(IF exception # None THEN None ELSE result,
            AfterJoin(_zeyrek_stats, exception, result))
  /\ UNCHANGED <<_analyzer, _zeyrek_available, main, abandoned>>
  /\ ForgetMatch
  /\ UNCHANGED cvars

----------------------------------------------------------------------------
(* Lazy initialization of the analyzer and the analyzer threads *)

\* where "return _analyzer if _analyzer else None" leads the thread that runs
\* it: to analyzer.lemmatize, or to the end of its work
Returned(analyzer) == IF analyzer = "MorphAnalyzer" THEN "lemmatize" ELSE "end"

\* one step of _get_analyzer by a thread that is at place p and gets to
\* place q: the test of the two globals; the initialization, which succeeds
\* or raises; the two assignments of either outcome, one at a time, the
\* return following the second
_get_analyzer(p, q) ==
  \/ /\ p = "start"
     /\ _analyzer = "None" /\ _zeyrek_available = "None"
     /\ q = "init"
     /\ UNCHANGED <<_analyzer, _zeyrek_available>>
  \/ /\ p = "start"
     /\ ~(_analyzer = "None" /\ _zeyrek_available = "None")
     /\ q = Returned(_analyzer)
     /\ UNCHANGED <<_analyzer, _zeyrek_available>>
  \/ /\ p = "init"
     /\ _analyzer' = "MorphAnalyzer"
     /\ q = "init_ok"
     /\ UNCHANGED _zeyrek_available
  \/ /\ p = "init_ok"
     /\ _zeyrek_available' = "True"
     /\ q = Returned(_analyzer)
     /\ UNCHANGED _analyzer
  \/ /\ p = "init"
     /\ _analyzer' = "False"
     /\ q = "init_fail"
     /\ UNCHANGED _zeyrek_available
  \/ /\ p = "init_fail"
     /\ _zeyrek_available' = "False"
     /\ q = Returned(_analyzer)
     /\ UNCHANGED _analyzer

\* the closure lemmatize() of _zeyrek_lemmatize_with_timeout, run by the
\* analyzer thread of the call the caller is in
lemmatize ==
  /\ pc = "join"
  /\ \/ \E q \in Places \cup {"end"} :
          /\ _get_analyzer(thread, q)
          /\ thread' = IF q = "end" THEN "done" ELSE q
          /\ UNCHANGED <<result, exception>>
     \/ /\ thread = "lemmatize"
        /\ thread' = "done"
        /\ \/ \E zeyrek_lemmas \in ZeyrekLemmas(word_lower) :
                /\ result' = IF zeyrek_lemmas = <<>> THEN None
                             ELSE Some(LowerAll(zeyrek_lemmas))
                /\ UNCHANGED exception
           \/ /\ exception' = Some("Exception")
              /\ UNCHANGED result
        /\ UNCHANGED <<_analyzer, _zeyrek_available>>
  /\ UNCHANGED <<_lemma_cache, _zeyrek_stats, pc, main, word_lower, abandoned,
                 zeyrek_result, used_fallback, ret>>
  /\ ForgetMatch
  /\ UNCHANGED cvars

\* variant of the closure of a call that timed out in which every call
\* shares one exception cell
lemmatize_abandoned_shared ==
  /\ \E p \in Places :
       /\ abandoned[p] > 0
       /\ \/ \E q \in Places \cup {"end"} :
               /\ _get_analyzer(p, q)
               /\ abandoned' = [x \in Places |->
                                  abandoned[x] + (IF x = q THEN 1 ELSE 0)
                                               - (IF x = p THEN 1 ELSE 0)]
               /\ UNCHANGED exception
          \/ /\ p = "lemmatize"
             /\ abandoned' = [abandoned EXCEPT ![p] = @ - 1]
             /\ exception' = Some("Exception")
             /\ UNCHANGED <<_analyzer, _zeyrek_available>>
  /\ UNCHANGED <<_lemma_cache, _zeyrek_stats, pc, main, word_lower, thread, result,
                 zeyrek_result, used_fallback, ret>>
  /\ ForgetMatch
  /\ UNCHANGED cvars

\* the same closure run by the thread of a call that timed out: what it
\* writes to result[0] and exception[0] is read by nobody
lemmatize_abandoned ==
  /\ \E p \in Places :
       /\ abandoned[p] > 0
       /\ \/ \E q \in Places \cup {"end"} :
               /\ _get_analyzer(p, q)
               /\ abandoned' = [x \in Places |->
                                  abandoned[x] + (IF x = q THEN 1 ELSE 0)
                                               - (IF x = p THEN 1 ELSE 0)]
          \/ /\ p = "lemmatize"
             /\ abandoned' = [abandoned EXCEPT ![p] = @ - 1]
             /\ UNCHANGED <<_analyzer, _zeyrek_available>>
  /\ UNCHANGED <<_lemma_cache, _zeyrek_stats, pc, main, word_lower, thread, result,
                 exception, zeyrek_result, used_fallback, ret>>
  /\ ForgetMatch
  /\ UNCHANGED cvars

\* check_zeyrek_status, run by the caller's thread: the call, _get_analyzer,
\* the test lemmatization, the return (the dictionary it returns is not kept)
check_zeyrek_status ==
  /\ \/ /\ pc = "idle"
        /\ pc' = "status"
        /\ main' = "start"
        /\ UNCHANGED <<_analyzer, _zeyrek_available>>
     \/ /\ pc = "status"
        /\ \E q \in Places \cup {"end"} :
             /\ _get_analyzer(main, q)
             /\ main' = IF q = "end" THEN "none" ELSE q
             /\ pc' = IF q = "end" THEN "idle" ELSE "status"
     \/ /\ pc = "status"
        /\ main = "lemmatize"
        /\ main' = "none"
        /\ pc' = "idle"
        /\ UNCHANGED <<_analyzer, _zeyrek_available>>
  /\ Forget
  /\ ForgetMatch
  /\ UNCHANGED cvars
  /\ UNCHANGED <<_lemma_cache, _zeyrek_stats, word_lower, thread, abandoned, result,
                 exception>>

\* variant of clear_lemma_cache that resets the counters as well
clear_lemma_cache_and_stats ==
  /\ pc = "idle"
  /\ _lemma_cache' = <<>>
  /\ _zeyrek_stats' = ZeroStats
  /\ Forget
  /\ ForgetMatch
  /\ UNCHANGED cvars
  /\ UNCHANGED <<_analyzer, _zeyrek_available, pc, main, word_lower,
                 thread, abandoned, result, exception>>

\* clear_lemma_cache
clear_lemma_cache ==
  /\ pc = "idle"
  /\ _lemma_cache' = <<>>
  /\ Forget
  /\ ForgetMatch
  /\ UNCHANGED cvars
  /\ UNCHANGED <<_analyzer, _zeyrek_available, _zeyrek_stats, pc, main, word_lower,
                 thread, abandoned, result, exception>>

\* reset_zeyrek_stats
reset_zeyrek_stats ==
  /\ pc = "idle"
  /\ _zeyrek_stats' = ZeroStats
  /\ Forget
  /\ ForgetMatch
  /\ UNCHANGED cvars
  /\ UNCHANGED <<_lemma_cache, _analyzer, _zeyrek_available, pc, main, word_lower,
                 thread, abandoned, result, exception>>

\* the names of the five counters
Counters == {"calls", "successes", "timeouts", "errors", "fallbacks"}

\* what the caller reads in the object it holds: the dictionary itself when
\* the object is a copy, the module global when it is a reference to it
HeldValue ==
  IF held_stats[1].alias THEN _zeyrek_stats ELSE held_stats[1].stats

\* variant of get_zeyrek_stats that returns _zeyrek_stats itself
get_zeyrek_stats_live ==
  /\ pc = "idle"
  /\ held_stats' = Some([alias |-> TRUE, stats |-> _zeyrek_stats, modified |-> FALSE])
  /\ Forget
  /\ ForgetMatch
  /\ UNCHANGED <<_lemma_cache, _analyzer, _zeyrek_available, _zeyrek_stats, pc, main,
                 word_lower, thread, abandoned, result, exception, normalize_call,
                 flexible_call, stem_call, callers, window_size>>

\* get_zeyrek_stats: return _zeyrek_stats.copy()
get_zeyrek_stats ==
  /\ pc = "idle"
  /\ held_stats' = Some([alias |-> FALSE, stats |-> _zeyrek_stats, modified |-> FALSE])
  /\ Forget
  /\ ForgetMatch
  /\ UNCHANGED <<_lemma_cache, _analyzer, _zeyrek_available, _zeyrek_stats, pc, main,
                 word_lower, thread, abandoned, result, exception, normalize_call,
                 flexible_call, stem_call, callers, window_size>>

\* the caller of get_zeyrek_stats adds one to a counter of the dictionary it
\* was given, once for each dictionary
modify_held_stats ==
  /\ pc = "idle"
  /\ held_stats # None
  /\ ~held_stats[1].modified
  /\ \E counter \in Counters :
       IF held_stats[1].alias
       THEN /\ _zeyrek_stats' = Bump(_zeyrek_stats, counter)
            /\ held_stats' = Some([held_stats[1] EXCEPT !.modified = TRUE])
       ELSE /\ held_stats' = Some([held_stats[1] EXCEPT !.stats = Bump(@, counter),
                                                        !.modified = TRUE])
            /\ UNCHANGED _zeyrek_stats
  /\ Forget
  /\ ForgetMatch
  /\ UNCHANGED <<_lemma_cache, _analyzer, _zeyrek_available, pc, main,
                 word_lower, thread, abandoned, result, exception, normalize_call,
                 flexible_call, stem_call, callers, window_size>>

----------------------------------------------------------------------------
(* The lemmatizer used by one caller *)

Init == LemmatizerInit /\ MatcherInit /\ CallersInit /\ lexicon = <<>>

Next ==
  \/ \E w \in Words : get_all_lemmas(w)
  \/ join_timeout
  \/ join_finished
  \/ lemmatize
  \/ lemmatize_abandoned
  \/ check_zeyrek_status
  \/ clear_lemma_cache
  \/ reset_zeyrek_stats

Spec == Init /\ [][Next]_vars

\* thread.join(timeout) returns within its time budget whatever the thread
\* does; nothing makes the analyzer threads advance
FairSpec == Spec /\ WF_vars(join_timeout \/ join_finished)

----------------------------------------------------------------------------
(* The lemmatizer used by a caller that also reads the statistics *)

\* the words the caller looks up: one that returns at the guard, two that
\* share a cache entry
StatsWords == {W_empty, W_gozleri, W_Gozleri}

\* the steps of the lemmatizer: get_all_lemmas calls with their analyzer
\* thread, clear_lemma_cache and reset_zeyrek_stats
LemmatizerNext ==
  \/ \E w \in StatsWords : get_all_lemmas(w)
  \/ join_timeout
  \/ join_finished
  \/ lemmatize
  \/ clear_lemma_cache
  \/ reset_zeyrek_stats

NextStats ==
  \/ LemmatizerNext
  \/ get_zeyrek_stats
  \/ modify_held_stats

SpecStats == Init /\ [][NextStats]_vars

----------------------------------------------------------------------------
(* Bounds and inputs of the matcher *)

\* tokens of a text given to match()
MaxTokens == 4
\* expressions of a lexicon
MaxLexicon == 2
\* matches of a list given to _remove_overlaps
MaxCandidates == 3
\* orders of list(stems) that the get_all_lemmas calls of match() come upon
MaxStemOrders == 1

K_gozu_donmek == W_gozu \o <<" ">> \o W_donmek
K_dondu_gozu == W_dondu \o <<" ">> \o W_gozu
K_gozu_dondu_gozu == W_gozu \o <<" ">> \o W_dondu \o <<" ">> \o W_gozu

\* the expressions a lexicon is made of: two and three tokens
Expressions == {K_gozu_donmek, K_dondu_gozu, K_gozu_dondu_gozu}

\* the lexicons: up to MaxLexicon distinct keys, in the order of the dict
Lexicons ==
  UNION {{l \in [1..n -> Expressions] : \A i, j \in 1..n : l[i] = l[j] => i = j} :
           n \in 0..MaxLexicon}

\* the words of a text, the words it can begin with (after a space or not)
\* and what stands between two words
TextWords == {W_gozu, W_dondu}
FirstWords == TextWords \cup {W_Gozu}
Leads == {<<>>, <<" ">>}
Gaps == {<<" ">>}

\* the texts of exactly n words
RECURSIVE TextsOf(_)
TextsOf(n) ==
  IF n = 0 THEN {<<>>}
  ELSE IF n = 1 THEN {lead \o w : lead \in Leads, w \in FirstWords}
  ELSE {s \o gap \o w : s \in TextsOf(n - 1), gap \in Gaps, w \in TextWords}

\* the texts match() is called with
Texts == UNION {TextsOf(n) : n \in 0..MaxTokens}

\* the character offsets of the spans given to _remove_overlaps
Offsets == {0, 5, 10, 20}

\* the upper-case form of the first letter of an expression
Capital(c) ==
  CASE c = "a" -> "A"
    [] c = "d" -> "D"
    [] c = "g" -> "G"
    [] OTHER -> c

\* self.lexicon[expr], the metadata of the key expr: a dictionary with the
\* original text and the definition, or an empty one for a key without them
Entry(expr) ==
  IF expr = <<>> \/ expr = K_dondu_gozu THEN <<>>
  ELSE [original |-> <<Capital(Head(expr))>> \o Tail(expr),
        definition |-> <<"=">> \o expr]

\* dict.get(key, default)
Get(dict, key, default) == IF key \in DOMAIN dict THEN dict[key] ELSE default

\* the match dictionary that exact_match and token_window_match append for
\* the key expr
Match(start, end, expr) ==
  [span |-> <<start, end>>,
   expression |-> Get(Entry(expr), "original", expr),
   definition |-> Get(Entry(expr), "definition", <<>>),
   normalized_expr |-> expr]

\* the matches given to _remove_overlaps
Candidates ==
  {m \in {Match(start, end, expr) :
            start \in Offsets, end \in Offsets, expr \in {K_gozu_donmek, K_dondu_gozu}} :
     m.span[1] <= m.span[2]}

\* the lists of matches given to _remove_overlaps
CandidateLists == UNION {[1..n -> Candidates] : n \in 0..MaxCandidates}

----------------------------------------------------------------------------
(* Text normalizer (normalize_tr.py) *)

\* the characters that \s matches and that str.strip() removes
IsSpace(c) == c \in {" ", "\t"}

\* the characters that \w matches: not the whitespace, the comma, the at sign,
\* the combining dot
IsWordChar(c) == c \notin {" ", "\t", ",", "@", "^"}

\* the punctuation that normalize_punctuation keeps, as far as texts have it
KeptPunctuation == {","}

\* the characters of s at the positions in keep, in order
Pick(s, keep) ==
  LET pos == [k \in 1..Cardinality(keep) |->
                CHOOSE i \in keep : Cardinality({j \in keep : j <= i}) = k]
  IN [k \in 1..Cardinality(keep) |-> s[pos[k]]]

\* variant of turkish_lowercase that is str.lower() alone
turkish_lowercase_plain(s) == Lower(s)

\* turkish_lowercase: I -> dotless i, dotted I -> i, then str.lower()
turkish_lowercase(s) ==
  Lower([i \in 1..Len(s) |-> IF s[i] = "I" THEN "i^"
                             ELSE IF s[i] = "I^" THEN "i"
                             ELSE s[i]])

\* text.strip()
strip(s) ==
  LET inner == {i \in 1..Len(s) : ~IsSpace(s[i])}
  IN IF inner = {} THEN <<>>
     ELSE SubSeq(s, CHOOSE i \in inner : \A j \in inner : i <= j,
                    CHOOSE i \in inner : \A j \in inner : j <= i)

\* re.sub(r'\s+', ' ', text): one space for each maximal run of whitespace
collapse(s) ==
  LET kept == Pick(s, {i \in 1..Len(s) :
                         ~IsSpace(s[i]) \/ i = 1 \/ ~IsSpace(s[i - 1])})
  IN [k \in 1..Len(kept) |-> IF IsSpace(kept[k]) THEN " " ELSE kept[k]]

\* variant of normalize_whitespace that replaces two spaces by one, once
normalize_whitespace_pairs(s) ==
  strip(Pick(s, {i \in 1..Len(s) :
                   ~(s[i] = " " /\ i > 1 /\ s[i - 1] = " "
                       /\ Cardinality({j \in 1..(i - 1) : \A k \in j..(i - 1) : s[k] = " "}) % 2 = 1)}))

\* normalize_whitespace: re.sub(r'\s+', ' ', text), then strip()
normalize_whitespace(s) == strip(collapse(s))

\* normalize_punctuation: re.sub(r'[^\w\s.,!?;:()\-\'"]', '', text)
normalize_punctuation(s) ==
  Pick(s, {i \in 1..Len(s) :
             IsWordChar(s[i]) \/ IsSpace(s[i]) \/ s[i] \in KeptPunctuation})

\* normalize_turkish_text(text, lowercase, normalize_ws, normalize_punct): the
\* three steps in the order of the source
normalize_turkish_text_args(s, lowercase, normalize_ws, normalize_punct) ==
  IF s = <<>> THEN <<>>
  ELSE LET lowered == IF lowercase THEN turkish_lowercase(s) ELSE s
           spaced == IF normalize_ws THEN normalize_whitespace(lowered) ELSE lowered
       IN IF normalize_punct THEN normalize_punctuation(spaced) ELSE spaced

\* normalize_turkish_text with its default arguments
normalize_turkish_text(s) == normalize_turkish_text_args(s, TRUE, TRUE, FALSE)

\* the spans [start, end) of re.finditer(r'\b\w+\b', s): the maximal runs of
\* word characters, in order
word_spans(s) ==
  LET starts == {i \in 1..Len(s) :
                   IsWordChar(s[i]) /\ (i = 1 \/ ~IsWordChar(s[i - 1]))}
      stop(i) == CHOOSE j \in i..Len(s) :
                   /\ \A k \in i..j : IsWordChar(s[k])
                   /\ (j = Len(s) \/ ~IsWordChar(s[j + 1]))
      at == Pick([i \in 1..Len(s) |-> i], starts)
  IN [k \in 1..Len(at) |-> <<at[k] - 1, stop(at[k])>>]

\* tokenize_simple: re.findall(r'\b\w+\b', normalize_turkish_text(text))
tokenize_simple(s) ==
  LET normalized == normalize_turkish_text(s)
      spans == word_spans(normalized)
  IN [k \in 1..Len(spans) |-> SubSeq(normalized, spans[k][1] + 1, spans[k][2])]

----------------------------------------------------------------------------
(* Lexicon matcher (matcher.py): overlap resolution *)

\* the sort key (start, -end) of a is not greater than that of b
KeyLE(a, b) ==
  \/ a.span[1] < b.span[1]
  \/ a.span[1] = b.span[1] /\ a.span[2] >= b.span[2]

\* sorted(matches, key=lambda x: (x['span'][0], -x['span'][1])): a stable sort
RECURSIVE sorted(_)
sorted(ms) ==
  IF ms = <<>> THEN <<>>
  ELSE LET init == sorted(SubSeq(ms, 1, Len(ms) - 1))
           m == ms[Len(ms)]
           k == Cardinality({i \in 1..Len(init) : KeyLE(init[i], m)})
       IN SubSeq(init, 1, k) \o <<m>> \o SubSeq(init, k + 1, Len(init))

\* variant of the loop body that keeps every match
Sweep_all(kept, m) == Append(kept, m)

\* variant of the loop body that lets a match of the same length replace
Sweep_ge(kept, m) ==
  IF kept = <<>> THEN <<m>>
  ELSE LET last == kept[Len(kept)]
       IN IF m.span[1] >= last.span[2] THEN Append(kept, m)
          ELSE IF m.span[2] - m.span[1] >= last.span[2] - last.span[1]
               THEN [kept EXCEPT ![Len(kept)] = m]
               ELSE kept

\* the body of the loop of _remove_overlaps: `filtered` after `match`
Sweep(kept, m) ==
  IF kept = <<>> THEN <<m>>
  ELSE LET last == kept[Len(kept)]
       IN IF m.span[1] >= last.span[2] THEN Append(kept, m)
          ELSE IF m.span[2] - m.span[1] > last.span[2] - last.span[1]
               THEN [kept EXCEPT ![Len(kept)] = m]
               ELSE kept

\* the loop of _remove_overlaps over the sorted matches ms
RECURSIVE SweepAll(_, _)
SweepAll(kept, ms) ==
  IF ms = <<>> THEN kept ELSE SweepAll(Sweep(kept, Head(ms)), Tail(ms))

\* _remove_overlaps
_remove_overlaps(ms) == IF ms = <<>> THEN <<>> ELSE SweepAll(<<>>, sorted(ms))

----------------------------------------------------------------------------
(* Lexicon matcher: exact mode *)

\* what re.IGNORECASE compares: i, dotless i, I and dotted I are one letter
CaseFold(c) == IF c \in {"i", "i^", "I", "I^"} THEN "i" ELSE LowerChar(c)[1]

\* the compiled pattern of expr matches s at offset pos
MatchesAt(expr, s, pos) ==
  /\ pos + Len(expr) <= Len(s)
  /\ \A k \in 1..Len(expr) : CaseFold(expr[k]) = CaseFold(s[pos + k])

\* the spans of pattern.finditer(s) from offset pos on: the occurrences of
\* expr from left to right, none starting inside the one before
RECURSIVE finditer(_, _, _)
finditer(expr, s, pos) ==
  IF pos > Len(s) THEN <<>>
  ELSE IF MatchesAt(expr, s, pos)
       THEN <<<<pos, pos + Len(expr)>>>>
              \o finditer(expr, s, IF expr = <<>> THEN pos + 1 ELSE pos + Len(expr))
       ELSE finditer(expr, s, pos + 1)

\* the matches exact_match collects for the expressions exprs, before
\* _remove_overlaps
RECURSIVE exact_candidates(_, _)
exact_candidates(exprs, normalized_text) ==
  IF exprs = <<>> THEN <<>>
  ELSE LET spans == finditer(Head(exprs), normalized_text, 0)
       IN [k \in 1..Len(spans) |-> Match(spans[k][1], spans[k][2], Head(exprs))]
            \o exact_candidates(Tail(exprs), normalized_text)

\* variant of exact_match that searches the text as given
exact_match_raw(s) == _remove_overlaps(exact_candidates(lexicon, s))

\* exact_match
exact_match(s) == _remove_overlaps(exact_candidates(lexicon, normalize_turkish_text(s)))

----------------------------------------------------------------------------
(* Lexicon matcher: token-window mode.  The lemmatizer state ls (the lemma *)
(* cache and the counters) goes through every get_all_lemmas call of the   *)
(* matcher, and each operator gives the set of its possible outcomes, one  *)
(* for each way the analyzer threads of the calls can behave.              *)

\* what _zeyrek_lemmatize_with_timeout(word) can return, with the counters it
\* leaves: a timeout, an exception, or what the thread found in time
ZeyrekOutcomes(word, stats) ==
  LET called == Bump(stats, "calls")
      found(l) == IF l = <<>> THEN None ELSE Some(LowerAll(l))
  IN {[zres |-> None, stats |-> Bump(called, "timeouts")],
      [zres |-> None, stats |-> AfterJoin(called, Some("Exception"), None)]}
       \cup {[zres |-> found(l), stats |-> AfterJoin(called, None, found(l))] :
               l \in ZeyrekLemmas(word)}

\* up to MaxStemOrders of the orders list(S) can have: rotations of one
StemOrders(S) ==
  LET n == Cardinality(S)
      f == CHOOSE g \in Orderings(S) : TRUE
  IN {[i \in 1..n |-> f[((i + k - 2) % n) + 1]] :
        k \in 1..(IF MaxStemOrders < n THEN MaxStemOrders ELSE n)}

\* a whole get_all_lemmas(word) call from the lemmatizer state ls: the lists
\* it can return, each with the lemmatizer state it leaves
GetAllLemmas(ls, word) ==
  IF Len(word) < 2 THEN {[lemmas |-> <<word>>, ls |-> ls]}
  ELSE IF Lower(word) \in DOMAIN ls.cache
       THEN {[lemmas |-> ls.cache[Lower(word)], ls |-> ls]}
       ELSE LET wl == Lower(word)
                outcomes == ZeyrekOutcomes(wl, ls.stats)
                orders == StemOrders(_simple_stem(wl))
                fb(o) == NeedsFallback(IF o.zres = None THEN <<>> ELSE o.zres[1], wl)
            IN {[lemmas |-> Lemmas(o.zres, wl, simple_stems),
                 ls |-> [cache |-> Put(ls.cache, wl, Lemmas(o.zres, wl, simple_stems)),
                         stats |-> IF fb(o) THEN Bump(o.stats, "fallbacks") ELSE o.stats]] :
                  o \in outcomes, simple_stems \in orders}

\* the loop of _tokens_match from the k-th pair of tokens on
RECURSIVE TokensMatchFrom(_, _, _, _)
TokensMatchFrom(ls, expr_tokens, window_tokens, k) ==
  IF k > Len(expr_tokens) THEN {[ok |-> TRUE, ls |-> ls]}
  ELSE LET expr_norm == normalize_turkish_text(expr_tokens[k])
           window_norm == normalize_turkish_text(window_tokens[k])
       IN IF expr_norm = window_norm
          THEN TokensMatchFrom(ls, expr_tokens, window_tokens, k + 1)
          ELSE UNION {UNION {IF Range(e.lemmas) \cap Range(w.lemmas) = {}
                             THEN {[ok |-> FALSE, ls |-> w.ls]}
                             ELSE TokensMatchFrom(w.ls, expr_tokens, window_tokens, k + 1) :
                               w \in GetAllLemmas(e.ls, window_norm)} :
                        e \in GetAllLemmas(ls, expr_norm)}

\* _tokens_match with allow_skip=False, the only way the matcher calls it
_tokens_match(ls, expr_tokens, window_tokens) ==
  IF Len(expr_tokens) # Len(window_tokens) THEN {[ok |-> FALSE, ls |-> ls]}
  ELSE TokensMatchFrom(ls, expr_tokens, window_tokens, 1)

\* the loop of _flexible_tokens_match with its locals expr_idx, window_idx and
\* matches: the values `matches` can have when the loop ends, each with the
\* lemmatizer state the get_all_lemmas calls leave
RECURSIVE FlexibleFrom(_, _, _, _, _, _)
FlexibleFrom(ls, expr_tokens, window_tokens, expr_idx, window_idx, n_matches) ==
  IF ~(expr_idx < Len(expr_tokens) /\ window_idx < Len(window_tokens))
  THEN {[matches |-> n_matches, ls |-> ls]}
  ELSE LET expr_norm == normalize_turkish_text(expr_tokens[expr_idx + 1])
           window_norm == normalize_turkish_text(window_tokens[window_idx + 1])
           both(l, m) == FlexibleFrom(l, expr_tokens, window_tokens,
                                      expr_idx + 1, window_idx + 1, m)
       IN IF expr_norm = window_norm THEN both(ls, n_matches + 1)
          ELSE UNION {UNION {
                 IF Range(e.lemmas) \cap Range(w.lemmas) # {} THEN both(w.ls, n_matches + 1)
                 ELSE IF /\ expr_idx + 1 < Len(expr_tokens)
                         /\ normalize_turkish_text(expr_tokens[expr_idx + 2]) = window_norm
                      THEN FlexibleFrom(w.ls, expr_tokens, window_tokens,
                                        expr_idx + 1, window_idx, n_matches)
                 ELSE IF /\ window_idx + 1 < Len(window_tokens)
                         /\ expr_norm = normalize_turkish_text(window_tokens[window_idx + 2])
                      THEN FlexibleFrom(w.ls, expr_tokens, window_tokens,
                                        expr_idx, window_idx + 1, n_matches)
                 ELSE both(w.ls, n_matches) :
                   w \in GetAllLemmas(e.ls, window_norm)} :
                        e \in GetAllLemmas(ls, expr_norm)}

\* max(a, b)
Max(a, b) == IF a >= b THEN a ELSE b

\* min_matches = max(2, int(len(expr_tokens) * 0.7)): int() truncates the
\* product, which for these lengths is the integer part of 7 * len / 10
min_matches(expr_tokens) == Max(2, (7 * Len(expr_tokens)) \div 10)

\* _flexible_tokens_match: what it can return, with `matches` as the loop
\* left it and the lemmatizer state
_flexible_tokens_match(ls, expr_tokens, window_tokens) ==
  {[ok |-> r.matches >= min_matches(expr_tokens), matches |-> r.matches, ls |-> r.ls] :
     r \in FlexibleFrom(ls, expr_tokens, window_tokens, 0, 0, 0)}

\* variant of _find_token_span that looks the places up in the normalized text
_find_token_span_normalized(s, start_token_idx, end_token_idx) ==
  IF end_token_idx > Len(tokenize_simple(s)) THEN None
  ELSE LET found == word_spans(normalize_turkish_text(s))
       IN IF start_token_idx >= Len(found) \/ end_token_idx > Len(found) THEN None
          ELSE Some(<<found[start_token_idx + 1][1], found[end_token_idx][2]>>)

\* _find_token_span: the tokens are counted in the normalized text, their
\* places are looked up in the text as given
_find_token_span(s, start_token_idx, end_token_idx) ==
  IF end_token_idx > Len(tokenize_simple(s)) THEN None
  ELSE LET found == word_spans(s)
       IN IF start_token_idx >= Len(found) \/ end_token_idx > Len(found) THEN None
          ELSE Some(<<found[start_token_idx + 1][1], found[end_token_idx][2]>>)

\* variant of the acceptance test that asks for 70% of the expression
Accepted_strict(match_len, expr_len) == 10 * match_len >= 7 * expr_len

\* "matched_ratio >= 0.5 or match_len >= 2" of the partial pass
Accepted(match_len, expr_len) == 2 * match_len >= expr_len \/ match_len >= 2

\* variant of the scan that goes from the last window to the first
RECURSIVE ScanWindows_last(_, _, _, _, _, _)
ScanWindows_last(ls, s, tokens, expr_subset, accepted, i) ==
  LET n == Len(expr_subset)
      j == Len(tokens) - n - i
  IN IF j < 0 THEN {[span |-> None, ls |-> ls]}
     ELSE UNION {IF r.ok /\ accepted /\ _find_token_span(s, j, j + n) # None
                 THEN {[span |-> _find_token_span(s, j, j + n), ls |-> r.ls]}
                 ELSE ScanWindows_last(r.ls, s, tokens, expr_subset, accepted, i + 1) :
                   r \in _tokens_match(ls, expr_subset, SubSeq(tokens, j + 1, j + n))}

\* a loop "for i in range(len(tokens) - n + 1)" of token_window_match from
\* window i on, n the length of expr_subset: the span of the first window
\* that matches, is accepted and has a span, or None
RECURSIVE ScanWindows(_, _, _, _, _, _)
ScanWindows(ls, s, tokens, expr_subset, accepted, i) ==
  LET n == Len(expr_subset)
  IN IF i > Len(tokens) - n THEN {[span |-> None, ls |-> ls]}
     ELSE UNION {IF r.ok /\ accepted /\ _find_token_span(s, i, i + n) # None
                 THEN {[span |-> _find_token_span(s, i, i + n), ls |-> r.ls]}
                 ELSE ScanWindows(r.ls, s, tokens, expr_subset, accepted, i + 1) :
                   r \in _tokens_match(ls, expr_subset, SubSeq(tokens, i + 1, i + n))}

\* the partial pass of token_window_match from the pair (match_start,
\* match_end) on: "match_len > len(tokens)" leaves both loops, and so does
\* the first hit
RECURSIVE PartialPass(_, _, _, _, _, _)
PartialPass(ls, s, tokens, expr_tokens, match_start, match_end) ==
  LET expr_len == Len(expr_tokens)
      match_len == match_end - match_start
  IN IF match_start >= expr_len - 1 THEN {[span |-> None, ls |-> ls]}
     ELSE IF match_end > expr_len
          THEN PartialPass(ls, s, tokens, expr_tokens, match_start + 1, match_start + 3)
          ELSE IF match_len > Len(tokens) THEN {[span |-> None, ls |-> ls]}
               ELSE UNION {IF r.span # None THEN {r}
                           ELSE PartialPass(r.ls, s, tokens, expr_tokens,
                                            match_start, match_end + 1) :
                             r \in ScanWindows(ls, s, tokens,
                                               SubSeq(expr_tokens, match_start + 1, match_end),
                                               Accepted(match_len, expr_len), 0)}

\* the match a pass appends for the span it found
Hit(found, expr) ==
  IF found = None THEN <<>> ELSE <<Match(found[1][1], found[1][2], expr)>>

\* the loop of token_window_match over the expressions exprs, ms being the
\* matches collected so far
RECURSIVE MatchExpressions(_, _, _, _, _)
MatchExpressions(ls, s, tokens, exprs, ms) ==
  IF exprs = <<>> THEN {[matches |-> ms, ls |-> ls]}
  ELSE LET expr == Head(exprs)
           expr_tokens == tokenize_simple(expr)
           expr_len == Len(expr_tokens)
       IN IF expr_len < 2 THEN MatchExpressions(ls, s, tokens, Tail(exprs), ms)
          ELSE UNION {UNION {MatchExpressions(p.ls, s, tokens, Tail(exprs),
                                              ms \o Hit(f.span, expr) \o Hit(p.span, expr)) :
                               p \in IF expr_len >= 3
                                     THEN PartialPass(f.ls, s, tokens, expr_tokens, 0, 2)
                                     ELSE {[span |-> None, ls |-> f.ls]}} :
                        f \in ScanWindows(ls, s, tokens, expr_tokens, TRUE, 0)}

\* variant of token_window_match that leaves out the expressions of more
\* tokens than the window
token_window_match_capped(s, size) ==
  {[matches |-> _remove_overlaps(r.matches), ls |-> r.ls] :
     r \in MatchExpressions([cache |-> _lemma_cache, stats |-> _zeyrek_stats],
                            s, tokenize_simple(s),
                            SelectSeq(lexicon, LAMBDA expr : Len(tokenize_simple(expr)) <= size),
                            <<>>)}

\* token_window_match(text, window_size): the lists it can return, each with
\* the lemmatizer state it leaves; no statement of it reads window_size
token_window_match(s, size) ==
  {[matches |-> _remove_overlaps(r.matches), ls |-> r.ls] :
     r \in MatchExpressions([cache |-> _lemma_cache, stats |-> _zeyrek_stats],
                            s, tokenize_simple(s), lexicon, <<>>)}

----------------------------------------------------------------------------
(* The matcher used by one caller *)

\* match(text, use_token_window, window_size): the dispatch and the whole of exact_match
\* or token_window_match.  The analyzer threads of the get_all_lemmas calls of
\* token_window_match are known by what the calls return and count.
match ==
  /\ pc = "match"
  /\ IF use_token_window
     THEN \E r \in token_window_match(text, window_size) :
            /\ matches' = r.matches
            /\ _lemma_cache' = r.ls.cache
            /\ _zeyrek_stats' = r.ls.stats
     ELSE /\ matches' = exact_match(text)
          /\ UNCHANGED <<_lemma_cache, _zeyrek_stats>>
  /\ pc' = "idle"
  /\ Forget
  /\ UNCHANGED <<_analyzer, _zeyrek_available, main, word_lower, thread, abandoned,
                 result, exception, lexicon, text, use_token_window, candidates, todo,
                 filtered, cvars>>

\* LexiconMatcher(lexicon) has been constructed and match() has been called
InitMatch ==
  /\ CallersInit
  /\ LemmatizerState
  /\ pc = "match"
  /\ lexicon \in Lexicons
  /\ text \in Texts
  /\ use_token_window \in BOOLEAN
  /\ matches = <<>>
  /\ candidates = <<>>
  /\ todo = <<>>
  /\ filtered = <<>>

NextMatch ==
  \/ match
  \/ clear_lemma_cache
  \/ reset_zeyrek_stats

SpecMatch == InitMatch /\ [][NextMatch]_vars

----------------------------------------------------------------------------
(* One _remove_overlaps call, a step for each turn of its loop *)

\* "if not matches: return []", else the sort
sort_matches ==
  /\ pc = "remove_overlaps"
  /\ IF candidates = <<>>
     THEN /\ matches' = <<>>
          /\ pc' = "idle"
          /\ UNCHANGED <<todo, filtered>>
     ELSE /\ todo' = sorted(candidates)
          /\ filtered' = <<>>
          /\ pc' = "sweep"
          /\ UNCHANGED matches
  /\ UNCHANGED <<cvars, lstate, lexicon, text, use_token_window, candidates>>

\* one turn of "for match in matches"
sweep ==
  /\ pc = "sweep"
  /\ todo # <<>>
  /\ filtered' = Sweep(filtered, Head(todo))
  /\ todo' = Tail(todo)
  /\ UNCHANGED <<cvars, lstate, pc, lexicon, text, use_token_window, matches, candidates>>

\* "return filtered"
return_filtered ==
  /\ pc = "sweep"
  /\ todo = <<>>
  /\ matches' = filtered
  /\ pc' = "idle"
  /\ UNCHANGED <<cvars, lstate, lexicon, text, use_token_window, candidates, todo, filtered>>

\* _remove_overlaps has been called with a list of matches
InitOverlap ==
  /\ CallersInit
  /\ LemmatizerState
  /\ pc = "remove_overlaps"
  /\ lexicon = <<>>
  /\ text = <<>>
  /\ use_token_window = FALSE
  /\ matches = <<>>
  /\ candidates \in CandidateLists
  /\ todo = <<>>
  /\ filtered = <<>>

NextOverlap ==
  \/ sort_matches
  \/ sweep
  \/ return_filtered

SpecOverlap == InitOverlap /\ [][NextOverlap]_vars

----------------------------------------------------------------------------
(* The matcher with a lexicon of one expression of three tokens *)

\* tokens of a text given to match() with the three-token expression
MaxPartialTokens == 3

W_agzi == <<"a", "g^", "z", "i^">>
W_acik == <<"a", "c^", "i^", "k">>
W_kalmak == <<"k", "a", "l", "m", "a", "k">>
W_kaldi == <<"k", "a", "l", "d", "i^">>

K_agzi_acik_kalmak == W_agzi \o <<" ">> \o W_acik \o <<" ">> \o W_kalmak

\* the words of the texts
PartialWords == {W_agzi, W_acik, W_kalmak, W_kaldi}

\* the texts of exactly n words, one space between two words
RECURSIVE PartialTextsOf(_)
PartialTextsOf(n) ==
  IF n = 0 THEN {<<>>}
  ELSE IF n = 1 THEN PartialWords
  ELSE {s \o <<" ">> \o w : s \in PartialTextsOf(n - 1), w \in PartialWords}

PartialTexts == UNION {PartialTextsOf(n) : n \in 0..MaxPartialTokens}

\* LexiconMatcher({"agzi acik kalmak": ...}) has been constructed and match()
\* has been called
InitPartial ==
  /\ CallersInit
  /\ LemmatizerState
  /\ pc = "match"
  /\ lexicon = <<K_agzi_acik_kalmak>>
  /\ text \in PartialTexts
  /\ use_token_window \in BOOLEAN
  /\ matches = <<>>
  /\ candidates = <<>>
  /\ todo = <<>>
  /\ filtered = <<>>

SpecPartial == InitPartial /\ [][NextMatch]_vars

----------------------------------------------------------------------------
(* The matcher called with a window size *)

\* largest window_size given to match(), the default aside
MaxWindowSize == 2

\* the window sizes: below and above the three tokens of the expression and
\* of the longest text
WindowSizes == 1..MaxWindowSize \cup {DefaultWindowSize}

\* the texts: those that begin with the first word of the expression
WindowTexts ==
  {t \in PartialTexts : Len(t) >= Len(W_agzi) /\ SubSeq(t, 1, Len(W_agzi)) = W_agzi}

\* LexiconMatcher({"agzi acik kalmak": ...}) has been constructed and
\* match(text, use_token_window, window_size) has been called
InitWindow ==
  /\ LemmatizerState
  /\ pc = "match"
  /\ lexicon = <<K_agzi_acik_kalmak>>
  /\ text \in WindowTexts
  /\ use_token_window \in BOOLEAN
  /\ window_size \in WindowSizes
  /\ matches = <<>>
  /\ candidates = <<>>
  /\ todo = <<>>
  /\ filtered = <<>>
  /\ normalize_call = None
  /\ held_stats = None
  /\ flexible_call = None
  /\ stem_call = None
  /\ callers = None

SpecWindow == InitWindow /\ [][NextMatch]_vars

----------------------------------------------------------------------------
(* The matcher in exact mode with keys that lie inside one another *)

\* expressions of a lexicon searched in exact mode
MaxExactLexicon == 3
\* words of a text searched in exact mode
MaxExactTokens == 3

W_AGZI == <<"A", "G^", "Z", "I">>

K_agzi == W_agzi
K_agzi_acik == W_agzi \o <<" ">> \o W_acik
K_acik_kalmak == W_acik \o <<" ">> \o W_kalmak

ExactKeys == {K_agzi, K_agzi_acik, K_acik_kalmak, K_agzi_acik_kalmak}

\* the lexicons: up to MaxExactLexicon distinct keys, in the order of the dict
ExactLexicons ==
  UNION {{l \in [1..n -> ExactKeys] : \A i, j \in 1..n : l[i] = l[j] => i = j} :
           n \in 0..MaxExactLexicon}

\* the texts of exactly n words: a text begins with a space or not, with a
\* word in lower or in upper case, and has one or two spaces between words
RECURSIVE ExactTextsOf(_)
ExactTextsOf(n) ==
  IF n = 0 THEN {<<>>}
  ELSE IF n = 1
       THEN {lead \o w : lead \in {<<>>, <<" ">>}, w \in {W_agzi, W_AGZI, W_acik, W_kalmak}}
       ELSE {s \o gap \o w : s \in ExactTextsOf(n - 1), gap \in {<<" ">>, <<" ", " ">>},
                              w \in {W_agzi, W_acik, W_kalmak}}

ExactTexts == UNION {ExactTextsOf(n) : n \in 0..MaxExactTokens}

\* LexiconMatcher(lexicon) has been constructed and match(text) has been
\* called, use_token_window being False by default
InitExact ==
  /\ CallersInit
  /\ LemmatizerState
  /\ pc = "match"
  /\ lexicon \in ExactLexicons
  /\ text \in ExactTexts
  /\ use_token_window = FALSE
  /\ matches = <<>>
  /\ candidates = <<>>
  /\ todo = <<>>
  /\ filtered = <<>>

SpecExact == InitExact /\ [][NextMatch]_vars

----------------------------------------------------------------------------
(* The text normalizer called on a text, and again on what it returned *)

\* characters of a text given to normalize_turkish_text
MaxNormalizeLen == 5

\* the characters of those texts: capital I, capital dotted I, a letter, the
\* space, the tab, a punctuation mark that is kept and one that is removed
NormalizeChars == {"I", "I^", "a", " ", "\t", ",", "@"}

T_IYI == <<"I^", "Y", "I^">>
T_ISTANBUL == <<"I", "S", "T", "A", "N", "B", "U", "L">>

NormalizeTexts ==
  UNION {[1..n -> NormalizeChars] : n \in 0..MaxNormalizeLen} \cup {T_IYI, T_ISTANBUL}

\* normalize_turkish_text(text, lowercase, normalize_ws, normalize_punct) has
\* been called
InitNormalize ==
  /\ LemmatizerState
  /\ MatcherInit
  /\ lexicon = <<>>
  /\ pc = "normalize"
  /\ held_stats = None
  /\ flexible_call = None
  /\ stem_call = None
  /\ callers = None
  /\ window_size = DefaultWindowSize
  /\ \E t \in NormalizeTexts, lowercase, normalize_ws, normalize_punct \in BOOLEAN :
       normalize_call = [text |-> t, lowercase |-> lowercase,
                         normalize_ws |-> normalize_ws,
                         normalize_punct |-> normalize_punct, returned |-> None]

\* what the call returns for its arguments
Normalized(call) ==
  normalize_turkish_text_args(call.text, call.lowercase, call.normalize_ws,
                              call.normalize_punct)

\* the call returns
normalize_returns ==
  /\ pc = "normalize"
  /\ normalize_call' = [normalize_call EXCEPT !.returned = Some(Normalized(normalize_call))]
  /\ pc' = "normalized"
  /\ UNCHANGED <<lstate, mvars, held_stats, flexible_call, stem_call, callers, window_size>>

\* the caller gives what was returned to normalize_turkish_text again, with the
\* same options, and that call returns
normalize_again ==
  /\ pc = "normalized"
  /\ LET again == [normalize_call EXCEPT !.text = normalize_call.returned[1]]
     IN normalize_call' = [again EXCEPT !.returned = Some(Normalized(again))]
  /\ UNCHANGED <<lstate, pc, mvars, held_stats, flexible_call, stem_call, callers, window_size>>

NextNormalize ==
  \/ normalize_returns
  \/ normalize_again

SpecNormalize == InitNormalize /\ [][NextNormalize]_vars

----------------------------------------------------------------------------
(* One _flexible_tokens_match call *)

\* tokens of the expression given to _flexible_tokens_match
MaxFlexibleTokens == 5
\* tokens of the window given to _flexible_tokens_match
MaxFlexibleWindow == 4

\* the expressions: the first tokens of a list of five, one of which is an
\* infinitive
FlexibleExpression == <<<<"a">>, <<"b">>, W_donmek, <<"d">>, <<"e">>>>
FlexibleExpressions ==
  {SubSeq(FlexibleExpression, 1, n) :
     n \in 1..(IF MaxFlexibleTokens < 5 THEN MaxFlexibleTokens ELSE 5)}

\* the windows: tokens of the expressions, an inflected form of the
\* infinitive and a token no expression has
FlexibleWords == {<<"a">>, <<"b">>, W_dondu, <<"d">>, <<"x">>}
FlexibleWindows == UNION {[1..n -> FlexibleWords] : n \in 0..MaxFlexibleWindow}

\* _flexible_tokens_match(expr_tokens, window_tokens) has been called
InitFlexible ==
  /\ LemmatizerState
  /\ MatcherInit
  /\ lexicon = <<>>
  /\ pc = "flexible"
  /\ normalize_call = None
  /\ held_stats = None
  /\ stem_call = None
  /\ callers = None
  /\ window_size = DefaultWindowSize
  /\ \E e \in FlexibleExpressions, w \in FlexibleWindows :
       flexible_call = [expr_tokens |-> e, window_tokens |-> w, matches |-> 0,
                        returned |-> None]

\* the call returns
flexible_returns ==
  /\ pc = "flexible"
  /\ \E r \in _flexible_tokens_match([cache |-> _lemma_cache, stats |-> _zeyrek_stats],
                                     flexible_call.expr_tokens,
                                     flexible_call.window_tokens) :
       /\ flexible_call' = [flexible_call EXCEPT !.matches = r.matches,
                                                 !.returned = Some(r.ok)]
       /\ _lemma_cache' = r.ls.cache
       /\ _zeyrek_stats' = r.ls.stats
  /\ pc' = "idle"
  /\ Forget
  /\ UNCHANGED <<_analyzer, _zeyrek_available, main, word_lower, thread, abandoned,
                 result, exception, mvars, normalize_call, held_stats, stem_call,
                 callers, window_size>>

NextFlexible == flexible_returns

SpecFlexible == InitFlexible /\ [][NextFlexible]_vars

----------------------------------------------------------------------------
(* The rule-based stemmers called on one word *)

\* characters of a root the stemmers are given with a suffix
MaxRootLen == 5

R_a == <<"a">>
R_al == <<"a", "l">>
R_ev == <<"e", "v">>
R_bak == <<"b", "a", "k">>
R_gel == <<"g", "e", "l">>
R_gor == <<"g", "o^", "r">>
R_ara == <<"a", "r", "a">>
R_konus == <<"k", "o", "n", "u", "s^">>

\* the roots: of one to five characters, with back and front vowels, ending
\* in a consonant or in a vowel
Roots == {r \in {R_a, R_al, R_ev, R_bak, R_gel, R_gor, R_ara, R_konus} : Len(r) <= MaxRootLen}

\* the words: a root alone, or a root and a suffix of one of the two tables
StemWords ==
  Roots \cup {r \o suffix : r \in Roots,
                            suffix \in Range(noun_suffixes) \cup Range(verb_suffixes)}

\* the stemmers have been called on a word
InitStem ==
  /\ LemmatizerState
  /\ MatcherInit
  /\ lexicon = <<>>
  /\ pc = "stem"
  /\ normalize_call = None
  /\ held_stats = None
  /\ flexible_call = None
  /\ callers = None
  /\ window_size = DefaultWindowSize
  /\ \E w \in StemWords : stem_call = [word |-> w, returned |-> None]

\* _simple_noun_stem(word), _simple_verb_stem(word) and _simple_stem(word)
\* return: the set of the elements of each list
stem_returns ==
  /\ pc = "stem"
  /\ stem_call' = [stem_call EXCEPT !.returned =
                     Some([noun |-> _simple_noun_stem(stem_call.word),
                           verb |-> _simple_verb_stem(stem_call.word),
                           stem |-> _simple_stem(stem_call.word)])]
  /\ pc' = "idle"
  /\ UNCHANGED <<lstate, mvars, normalize_call, held_stats, flexible_call, callers,
                 window_size>>

NextStem == stem_returns

SpecStem == InitStem /\ [][NextStem]_vars

----------------------------------------------------------------------------
(* get_all_lemmas called by several threads at the same time *)

\* the threads that call get_all_lemmas
MaxCallers == 2

Callers == 1..MaxCallers

\* the words they look up
ConcurrentWords == {W_goz, W_gozu}

\* how thread.join(timeout) and the tests after it can end
Outcomes == {"timeout", "error", "success", "nothing"}

\* the caller c with the fields of the record r changed
At(c, r) == [callers EXCEPT ![c] = [f \in DOMAIN @ |-> IF f \in DOMAIN r THEN r[f] ELSE @[f]]]

\* what all the steps of a caller leave alone
CallerFrame ==
  UNCHANGED <<_analyzer, _zeyrek_available, pc, main, word_lower, thread, abandoned,
              result, exception, zeyrek_result, used_fallback, ret, mvars,
              normalize_call, held_stats, flexible_call, stem_call, window_size>>

\* each thread is about to call get_all_lemmas(word); the module is as
\* imported
InitConcurrent ==
  /\ LemmatizerState
  /\ MatcherInit
  /\ lexicon = <<>>
  /\ pc = "concurrent"
  /\ normalize_call = None
  /\ held_stats = None
  /\ flexible_call = None
  /\ stem_call = None
  /\ window_size = DefaultWindowSize
  /\ callers \in [Callers -> {[at |-> "call", word |-> w, counter |-> "calls",
                               loaded |-> 0, zres |-> None, took |-> {}] :
                                w \in ConcurrentWords}]

\* get_all_lemmas up to "_zeyrek_stats['calls'] += 1": the length guard and
\* the cache check
caller_enters(c) ==
  /\ callers[c].at = "call"
  /\ callers' = IF Len(callers[c].word) < 2
                   \/ Lower(callers[c].word) \in DOMAIN _lemma_cache
                THEN At(c, [at |-> "returned"])
                ELSE At(c, [at |-> "load", counter |-> "calls"])
  /\ UNCHANGED <<_lemma_cache, _zeyrek_stats>>
  /\ CallerFrame

\* "_zeyrek_stats[counter] += 1", its first half: the value is read
caller_loads(c) ==
  /\ callers[c].at = "load"
  /\ callers' = At(c, [at |-> "store", loaded |-> _zeyrek_stats[callers[c].counter]])
  /\ UNCHANGED <<_lemma_cache, _zeyrek_stats>>
  /\ CallerFrame

\* "_zeyrek_stats[counter] += 1", its second half: the value read plus one is
\* written; then what follows the statement up to the next access to the
\* shared dictionaries
caller_stores(c) ==
  /\ callers[c].at = "store"
  /\ _zeyrek_stats' = [_zeyrek_stats EXCEPT ![callers[c].counter] = callers[c].loaded + 1]
  /\ LET r == callers[c]
         took == r.took \cup {r.counter}
         found == IF r.zres = None THEN <<>> ELSE r.zres[1]
     IN callers' =
          IF r.counter = "calls" THEN At(c, [at |-> "join", took |-> took])
          ELSE IF r.counter = "fallbacks" THEN At(c, [at |-> "cache", took |-> took])
          ELSE IF NeedsFallback(found, Lower(r.word))
               THEN At(c, [at |-> "load", counter |-> "fallbacks", took |-> took])
               ELSE At(c, [at |-> "cache", took |-> took])
  /\ UNCHANGED _lemma_cache
  /\ CallerFrame

\* the analyzer thread of the call and thread.join(timeout): the thread is
\* still alive, has raised, has left a result or has left none
caller_joins(c) ==
  /\ callers[c].at = "join"
  /\ \E outcome \in Outcomes :
       \/ /\ outcome = "timeout"
          /\ callers' = At(c, [at |-> "load", counter |-> "timeouts"])
       \/ /\ outcome = "error"
          /\ callers' = At(c, [at |-> "load", counter |-> "errors"])
       \/ /\ outcome = "success"
          /\ \E zeyrek_lemmas \in ZeyrekLemmas(Lower(callers[c].word)) \ {<<>>} :
               callers' = At(c, [at |-> "load", counter |-> "successes",
                                 zres |-> Some(LowerAll(zeyrek_lemmas))])
       \/ /\ outcome = "nothing"
          /\ callers' = At(c, [at |-> "load", counter |-> "fallbacks"])
  /\ UNCHANGED <<_lemma_cache, _zeyrek_stats>>
  /\ CallerFrame

\* "_lemma_cache[word_lower] = result" and the return
caller_caches(c) ==
  /\ callers[c].at = "cache"
  /\ \E simple_stems \in Orderings(_simple_stem(Lower(callers[c].word))) :
       _lemma_cache' = Put(_lemma_cache, Lower(callers[c].word),
                           Lemmas(callers[c].zres, Lower(callers[c].word), simple_stems))
  /\ callers' = At(c, [at |-> "returned"])
  /\ UNCHANGED _zeyrek_stats
  /\ CallerFrame

NextConcurrent ==
  \E c \in Callers :
    \/ caller_enters(c)
    \/ caller_loads(c)
    \/ caller_stores(c)
    \/ caller_joins(c)
    \/ caller_caches(c)

SpecConcurrent == InitConcurrent /\ [][NextConcurrent]_vars

----------------------------------------------------------------------------
(* Claims about the lemmatizer *)

\* a get_all_lemmas call returns in this step, having missed the cache
ReturnsFromJoin == pc = "join" /\ pc' = "idle"

\* C2: whatever the word and whatever the analyzer did (success, timeout,
\* exception, empty result, no analyzer), what get_all_lemmas returns is a
\* non-empty list
C2_NonEmpty == ret # None => Len(ret[1]) >= 1

\* a call has returned after the analyzer raised
C2_Witness ==
  /\ ret # None /\ Len(ret[1]) >= 1
  /\ used_fallback
  /\ _zeyrek_stats.calls = 1 /\ _zeyrek_stats.errors = 1

\* C3: a call that waits for the analyzer thread always returns, and when the
\* wait ends with the thread alive the call records a timeout, goes on with
\* the fallback stemmer and leaves the thread running where it is
C3_Returns ==
  /\ (pc = "join") ~> (pc = "idle")
  /\ [][(ReturnsFromJoin /\ thread # "done") =>
          /\ _zeyrek_stats'.timeouts = _zeyrek_stats.timeouts + 1
          /\ zeyrek_result' = None
          /\ used_fallback'
          /\ abandoned' = [abandoned EXCEPT ![thread] = @ + 1]]_vars

\* a call has returned on a timeout and its thread is still initializing
C3_Witness ==
  /\ pc = "idle" /\ ret # None /\ used_fallback
  /\ _zeyrek_stats.timeouts = 1
  /\ abandoned["init"] = 1

Timeouts == _zeyrek_stats.timeouts

\* C4 as stated: every get_all_lemmas("gozleri") call whose analyzer can only
\* time out returns a list with the root "goz" and raises timeouts by one
C4_EveryCall ==
  [][((get_all_lemmas(W_gozleri) /\ pc' = "idle")
        \/ (join_timeout /\ word_lower = W_gozleri)) =>
       /\ W_goz \in Range(ret'[1])
       /\ Timeouts' = Timeouts + 1]_vars

\* C4 amended: a get_all_lemmas call that misses the cache and times out
\* raises timeouts by exactly one, and for "gozleri" returns a list with the
\* root "goz"; no other step of a call changes timeouts (a call served from
\* the cache or returning at the guard leaves it as it is)
C4_UncachedCall ==
  [][/\ join_timeout =>
          /\ Timeouts' = Timeouts + 1
          /\ ret' # None /\ Len(ret'[1]) >= 1
          /\ word_lower = W_gozleri => W_goz \in Range(ret'[1])
     /\ (\E w \in Words : get_all_lemmas(w)) => Timeouts' = Timeouts
     /\ join_finished => Timeouts' = Timeouts]_vars

\* get_all_lemmas("gozleri") has timed out and returned the stems
C4_Witness ==
  /\ ret # None /\ W_goz \in Range(ret[1]) /\ W_gozleri \in Range(ret[1])
  /\ zeyrek_result = None /\ used_fallback
  /\ _zeyrek_stats.timeouts = 1

\* C5 as stated: a call with a word whose lowercase form is that of a word
\* already looked up returns the list of that lookup and touches neither the
\* counters nor the analyzer
C5_AnyWord ==
  [][\A w \in Words :
       (get_all_lemmas(w) /\ Lower(w) \in DOMAIN _lemma_cache) =>
         /\ ret' = Some(_lemma_cache[Lower(w)])
         /\ UNCHANGED <<_zeyrek_stats, thread, abandoned, _lemma_cache>>
         /\ pc' = "idle"]_vars

\* C5 amended: the same for a word of length >= 2; and a lookup leaves what it
\* returns in the cache, where only clear_lemma_cache removes or changes it
C5_LongWord ==
  [][/\ \A w \in Words :
          (get_all_lemmas(w) /\ Len(w) >= 2 /\ Lower(w) \in DOMAIN _lemma_cache) =>
            /\ ret' = Some(_lemma_cache[Lower(w)])
            /\ UNCHANGED <<_zeyrek_stats, thread, abandoned, _lemma_cache>>
            /\ pc' = "idle"
     /\ ReturnsFromJoin =>
          /\ word_lower \in DOMAIN _lemma_cache'
          /\ ret' = Some(_lemma_cache'[word_lower])
     /\ ~clear_lemma_cache =>
          \A k \in DOMAIN _lemma_cache :
            k \in DOMAIN _lemma_cache' /\ _lemma_cache'[k] = _lemma_cache[k]]_vars

\* "Gozleri" was looked up with "gozleri" in the cache: the list with the
\* root came back and nothing was counted
C5_Witness ==
  /\ W_gozleri \in DOMAIN _lemma_cache
  /\ ret = Some(_lemma_cache[W_gozleri])
  /\ W_goz \in Range(ret[1])
  /\ _zeyrek_stats = ZeroStats

\* the threads that are in the initialization of _get_analyzer
Initializing ==
  abandoned["init"] + (IF thread = "init" THEN 1 ELSE 0)
                    + (IF main = "init" THEN 1 ELSE 0)

\* C6: once an initialization has failed the analyzer stays unavailable, no
\* thread enters the initialization any more, and every call that misses the
\* cache returns what the fallback stemmer gives
C6_FailureIsFinal ==
  [][_analyzer = "False" =>
       /\ _analyzer' = "False"
       /\ Initializing' <= Initializing
       /\ ReturnsFromJoin => (zeyrek_result' = None /\ used_fallback')]_vars

\* the part of C6 that the code keeps: after a failure no thread enters the
\* initialization
C6_NoNewAttempt ==
  [][(_analyzer = "False" \/ _zeyrek_available = "False") =>
       Initializing' <= Initializing]_vars

\* r is the list l without the later occurrences of its elements
IsDeduplicated(r, l) ==
  /\ Range(r) = Range(l)
  /\ \A i, j \in 1..Len(r) : i < j =>
       /\ r[i] # r[j]
       /\ (CHOOSE m \in 1..Len(l) : l[m] = r[i] /\ \A n \in 1..(m - 1) : l[n] # r[i])
            < (CHOOSE m \in 1..Len(l) : l[m] = r[j] /\ \A n \in 1..(m - 1) : l[n] # r[j])

Fallbacks == _zeyrek_stats.fallbacks

Errors == _zeyrek_stats.errors

\* C8 as stated: when the thread ends in time having raised or having given
\* nothing usable, errors goes up by one and the call goes on without result
C8_ErrorOrEmpty ==
  [][(ReturnsFromJoin /\ thread = "done" /\ (exception # None \/ result = None)) =>
       /\ Errors' = Errors + 1
       /\ zeyrek_result' = None]_vars

\* C8 amended: when the thread ends in time having raised, errors goes up by
\* one; when it ends having given nothing usable without raising (no
\* analyses, no lemmas, no analyzer), none of errors, successes and timeouts
\* changes; either way the call goes on without result, with the fallback
C8_ErrorOnly ==
  [][(ReturnsFromJoin /\ thread = "done" /\ (exception # None \/ result = None)) =>
       /\ Errors' = Errors + (IF exception # None THEN 1 ELSE 0)
       /\ _zeyrek_stats'.successes = _zeyrek_stats.successes
       /\ _zeyrek_stats'.timeouts = _zeyrek_stats.timeouts
       /\ zeyrek_result' = None
       /\ used_fallback']_vars

\* the analyzer has raised in time and the call has returned the stems
C8_Witness ==
  /\ ret # None /\ used_fallback /\ zeyrek_result = None
  /\ _zeyrek_stats = [ZeroStats EXCEPT !.calls = 1, !.errors = 1, !.fallbacks = 1]

----------------------------------------------------------------------------
(* Claims about the matcher *)

\* C1: in exact mode and in token-window mode, whatever the lexicon and the
\* text, the matches that match() returns are in ascending order of start and
\* each ends no later than the next begins
C1_SortedDisjoint ==
  \A i \in 1..(Len(matches) - 1) :
    /\ matches[i].span[1] <= matches[i + 1].span[1]
    /\ matches[i].span[2] <= matches[i + 1].span[1]

\* token-window mode has returned two matches of two expressions
C1_Witness ==
  /\ pc = "idle" /\ use_token_window
  /\ Len(lexicon) = 2 /\ Len(matches) = 2
  /\ matches[1].normalized_expr # matches[2].normalized_expr

\* the sort key of _remove_overlaps puts ms in order
Ordered(ms) ==
  \A i \in 1..(Len(ms) - 1) :
    \/ ms[i].span[1] < ms[i + 1].span[1]
    \/ ms[i].span[1] = ms[i + 1].span[1] /\ ms[i].span[2] >= ms[i + 1].span[2]

\* a and b hold the same matches the same number of times
SameMatches(a, b) ==
  /\ Len(a) = Len(b)
  /\ \A m \in Range(a) \cup Range(b) :
       Cardinality({i \in 1..Len(a) : a[i] = m}) = Cardinality({i \in 1..Len(b) : b[i] = m})

SpanLength(m) == m.span[2] - m.span[1]

\* C9: _remove_overlaps goes through the candidates by ascending start and,
\* on equal start, descending end; a candidate that begins no earlier than
\* the last kept one ends is appended; one that overlaps the last kept one
\* takes its place when it is strictly longer and is dropped otherwise; and
\* the candidates [0,10) and [5,20) come out as [5,20) alone
C9_Sweep ==
  /\ [][(pc = "remove_overlaps" /\ pc' = "sweep") =>
          Ordered(todo') /\ SameMatches(todo', candidates)]_vars
  /\ [][(pc = "sweep" /\ todo # <<>>) =>
          LET m == Head(todo)
              last == filtered[Len(filtered)]
          IN /\ todo' = Tail(todo)
             /\ filtered' =
                  IF filtered = <<>> \/ m.span[1] >= last.span[2]
                  THEN filtered \o <<m>>
                  ELSE IF SpanLength(m) > SpanLength(last)
                       THEN SubSeq(filtered, 1, Len(filtered) - 1) \o <<m>>
                       ELSE filtered]_vars
  /\ [][(pc = "sweep" /\ pc' = "idle") => (todo = <<>> /\ matches' = filtered)]_vars
  /\ []((/\ pc = "idle"
         /\ Len(candidates) = 2
         /\ {candidates[1].span, candidates[2].span} = {<<0, 10>>, <<5, 20>>})
          => (Len(matches) = 1 /\ matches[1].span = <<5, 20>>))

\* [0,10) and [5,20) have been resolved
C9_Witness ==
  /\ pc = "idle"
  /\ Len(candidates) = 2
  /\ candidates[1].span = <<0, 10>> /\ candidates[2].span = <<5, 20>>
  /\ Len(matches) = 1 /\ matches[1].span = <<5, 20>>

\* the lemmas get_all_lemmas has returned for the token w during the call
LemmasOf(w) ==
  IF Len(w) < 2 THEN {w}
  ELSE IF w \in DOMAIN _lemma_cache THEN Range(_lemma_cache[w]) ELSE {}

\* the tokens e and w are equal or share a lemma
Agree(e, w) == e = w \/ LemmasOf(e) \cap LemmasOf(w) # {}

----------------------------------------------------------------------------
(* Claims about the two passes of token-window mode *)

\* the character span of the window of n tokens that begins at token i of text
WindowSpan(i, n) == <<word_spans(text)[i + 1][1], word_spans(text)[i + n][2]>>

\* the window of Len(e) tokens at token i of the tokens t agrees with e
WindowAgrees(e, t, i) == \A k \in 1..Len(e) : Agree(e[k], t[i + k])

SomeSubsequenceAgrees(e, t) ==
  \E a \in 1..Len(e), b \in 1..Len(e) :
    /\ b - a + 1 >= 2
    /\ \E i \in 0..(Len(t) - (b - a + 1)) : WindowAgrees(SubSeq(e, a, b), t, i)

\* C18: in token-window mode with a lexicon of one expression of three tokens
\* or more, whenever some contiguous sub-sequence of two or more of its tokens
\* agrees with a window of the text of the same length, the expression is
\* matched
C18_AnySubsequence ==
  (/\ pc = "idle" /\ use_token_window
   /\ Len(lexicon) = 1
   /\ Len(tokenize_simple(lexicon[1])) >= 3
   /\ SomeSubsequenceAgrees(tokenize_simple(lexicon[1]), tokenize_simple(text)))
    => \E i \in 1..Len(matches) : matches[i].normalized_expr = lexicon[1]

\* the same for the texts that have at least as many tokens as the expression,
\* for which no sub-sequence is longer than the text
C18_LongText ==
  (/\ pc = "idle" /\ use_token_window
   /\ Len(lexicon) = 1
   /\ Len(tokenize_simple(lexicon[1])) >= 3
   /\ Len(tokenize_simple(text)) >= Len(tokenize_simple(lexicon[1]))
   /\ SomeSubsequenceAgrees(tokenize_simple(lexicon[1]), tokenize_simple(text)))
    => \E i \in 1..Len(matches) : matches[i].normalized_expr = lexicon[1]

\* the windows of as many tokens as e has that agree with e in the tokens t,
\* by the index of their first token
FullWindows(e, t) == {i \in 0..(Len(t) - Len(e)) : WindowAgrees(e, t, i)}

\* C19: in token-window mode with a lexicon of one expression of two tokens
\* or more, at most one match spans a window of exactly as many tokens as the
\* expression has; there is one when some such window agrees with the
\* expression token by token, and it spans the leftmost of these windows,
\* whatever windows agree further right
C19_LeftmostWindow ==
  (/\ pc = "idle" /\ use_token_window
   /\ Len(lexicon) = 1
   /\ Len(tokenize_simple(lexicon[1])) >= 2)
    => LET e == tokenize_simple(lexicon[1])
           t == tokenize_simple(text)
           agreeing == FullWindows(e, t)
           full == {k \in 1..Len(matches) :
                      \E i \in 0..(Len(t) - Len(e)) : matches[k].span = WindowSpan(i, Len(e))}
       IN IF agreeing = {} THEN full = {}
          ELSE LET first == CHOOSE i \in agreeing : \A j \in agreeing : i <= j
               IN \E k \in 1..Len(matches) :
                    /\ full = {k}
                    /\ matches[k] = Match(WindowSpan(first, Len(e))[1],
                                          WindowSpan(first, Len(e))[2], lexicon[1])

\* "gozu dondu gozu dondu" has been matched against "gozu donmek": the
\* windows at tokens 0 and 2 agree with it and the match spans the first
C19_Witness ==
  /\ pc = "idle" /\ use_token_window
  /\ lexicon = <<K_gozu_donmek>>
  /\ text = W_gozu \o <<" ">> \o W_dondu \o <<" ">> \o W_gozu \o <<" ">> \o W_dondu
  /\ FullWindows(tokenize_simple(lexicon[1]), tokenize_simple(text)) = {0, 2}
  /\ matches = <<Match(0, 10, K_gozu_donmek)>>

----------------------------------------------------------------------------
(* Claims about exact mode *)

\* the key k occurs in the normalized text nt at offset p
Occurs(k, nt, p) ==
  /\ p + Len(k) <= Len(nt)
  /\ \A j \in 1..Len(k) : CaseFold(nt[p + j]) = CaseFold(k[j])

\* the spans [a, b) and [c, d) have a character in common
Overlap(a, b, c, d) == a < d /\ c < b

\* every match returned names a key of the lexicon, carries the original
\* text and the definition of that key, and spans an occurrence of the key in
\* the text nt
MatchesAreOccurrences(nt) ==
  \A i \in 1..Len(matches) :
    LET m == matches[i]
        k == m.normalized_expr
    IN /\ k \in Range(lexicon)
       /\ m.expression = Get(Entry(k), "original", k)
       /\ m.definition = Get(Entry(k), "definition", <<>>)
       /\ m.span[2] = m.span[1] + Len(k)
       /\ Occurs(k, nt, m.span[1])

\* the occurrences of the keys of the lexicon in the text nt: key and offset
Occurrences(nt) ==
  {o \in Range(lexicon) \X (0..Len(nt)) : Occurs(o[1], nt, o[2])}

----------------------------------------------------------------------------
(* Claims about the text normalizer *)

\* the call was made with the default options
DefaultOptions ==
  normalize_call.lowercase /\ normalize_call.normalize_ws /\ ~normalize_call.normalize_punct

\* C13: with the default options (lowercase on, whitespace collapsing on,
\* punctuation stripping off) normalize is idempotent: normalizing what a
\* call returned returns it unchanged
C13_Idempotent ==
  [][(normalize_again /\ DefaultOptions) =>
       normalize_call'.returned = normalize_call.returned]_vars

\* what a call with the default options returned, dotless i, space, a, has
\* been normalized again
C13_Witness ==
  /\ pc = "normalized"
  /\ DefaultOptions
  /\ normalize_call.text = <<"i^", " ", "a">>
  /\ normalize_call.returned = Some(<<"i^", " ", "a">>)

\* s has no run of two or more whitespace characters and no whitespace at
\* either end
Trimmed(s) ==
  /\ \A i \in 1..Len(s) : IsSpace(s[i]) => (i > 1 /\ i < Len(s) /\ ~IsSpace(s[i + 1]))

\* C14: whatever the text and the lowercase and punctuation options, with
\* whitespace collapsing on the text returned has no run of two or more
\* whitespace characters and no whitespace at either end
C14_Trimmed ==
  (pc = "normalized" /\ normalize_call.normalize_ws) =>
    Trimmed(normalize_call.returned[1])

\* the same with punctuation stripping off, where the whitespace step is the
\* last one
C14_TrimmedUnstripped ==
  (pc = "normalized" /\ normalize_call.normalize_ws /\ ~normalize_call.normalize_punct) =>
    Trimmed(normalize_call.returned[1])

\* how many times the character c is in s
Count(s, c) == Cardinality({i \in 1..Len(s) : s[i] = c})

\* C15: with lowercase on, every capital I of the text comes out as a dotless
\* i and every capital dotted I as an i, so that what is returned holds no
\* capital I, no capital dotted I and no i that was a capital I: it has the
\* i's and the dotted capitals of the text as its i's, and the dotless i's
\* and the capital I's of the text as its dotless i's.  With the default
\* options "IYI" in dotted capitals gives "iyi" and "ISTANBUL" gives
\* "istanbul" with a dotless i.
C15_TurkishCase ==
  (pc = "normalized" /\ normalize_call.lowercase) =>
    LET t == normalize_call.text
        out == normalize_call.returned[1]
    IN /\ Count(out, "I") = 0
       /\ Count(out, "I^") = 0
       /\ Count(out, "i") = Count(t, "i") + Count(t, "I^")
       /\ Count(out, "i^") = Count(t, "i^") + Count(t, "I")
       /\ (DefaultOptions /\ t = T_IYI) => out = <<"i", "y", "i">>
       /\ (DefaultOptions /\ t = T_ISTANBUL) =>
            out = <<"i^", "s", "t", "a", "n", "b", "u", "l">>

\* "ISTANBUL" has been normalized with the default options
C15_Witness ==
  /\ pc = "normalized"
  /\ DefaultOptions
  /\ normalize_call.text = T_ISTANBUL
  /\ normalize_call.returned = Some(<<"i^", "s", "t", "a", "n", "b", "u", "l">>)

----------------------------------------------------------------------------
(* Claims about the statistics and the cache *)

\* C16: get_zeyrek_stats returns a snapshot.  The call changes neither the
\* counters nor the cache and what it returns reads as the counters of that
\* moment; a modification of the returned dictionary leaves the counters as
\* they are; and no step of get_all_lemmas, of the analyzer threads, of
\* check_zeyrek_status, clear_lemma_cache or reset_zeyrek_stats changes what
\* the caller reads in a dictionary returned before
C16_Snapshot ==
  [][/\ get_zeyrek_stats =>
          /\ UNCHANGED <<_zeyrek_stats, _lemma_cache>>
          /\ HeldValue' = _zeyrek_stats
     /\ modify_held_stats => UNCHANGED <<_zeyrek_stats, _lemma_cache>>
     /\ (held_stats # None /\ LemmatizerNext) => HeldValue' = HeldValue]_vars

\* the caller holds counters read after one call that timed out, and the
\* counters have been reset since
C16_Witness ==
  /\ pc = "idle"
  /\ held_stats # None
  /\ HeldValue = [ZeroStats EXCEPT !.calls = 1, !.timeouts = 1, !.fallbacks = 1]
  /\ _zeyrek_stats = ZeroStats

\* C17: clear_lemma_cache leaves the cache empty and the five counters as
\* they were; and a get_all_lemmas call for a word of two characters or more
\* that the cache does not hold, as is every word after clear_lemma_cache,
\* goes to the analyzer: calls is raised by one and the call waits for the
\* analyzer thread
C17_ClearCache ==
  [][/\ clear_lemma_cache =>
          /\ _lemma_cache' = <<>>
          /\ _zeyrek_stats' = _zeyrek_stats
     /\ \A w \in StatsWords :
          (get_all_lemmas(w) /\ Len(w) >= 2 /\ Lower(w) \notin DOMAIN _lemma_cache) =>
            /\ _zeyrek_stats' = Bump(_zeyrek_stats, "calls")
            /\ pc' = "join"
            /\ thread' = "start"]_vars

\* "gozleri", the one word the caller looks up that can be cached, is looked
\* up again: the thread of an earlier call, which timed out and whose result
\* was cached, is still alive, the cache has been cleared and the counters
\* reset, and the call is waiting for its thread
C17_Witness ==
  /\ pc = "join"
  /\ word_lower = W_gozleri
  /\ Alive >= 1
  /\ _lemma_cache = <<>>
  /\ _zeyrek_stats = [ZeroStats EXCEPT !.calls = 1]

----------------------------------------------------------------------------
(* Claims about flexible token matching *)

\* C20: _flexible_tokens_match returns True exactly when the pairs of tokens
\* it has matched are at least max(2, ceil(0.7 * n)), n being the number of
\* expression tokens: 3 for n = 3, 3 for n = 4, 4 for n = 5
C20_CeilThreshold ==
  (pc = "idle" /\ flexible_call # None) =>
    LET n == Len(flexible_call.expr_tokens)
    IN flexible_call.returned[1] =
         (flexible_call.matches >= Max(2, (7 * n + 9) \div 10))

\* what the call does return: True exactly when the matched pairs are at
\* least max(2, floor(0.7 * n)), which is 2 for n = 3, 2 for n = 4 and 3 for
\* n = 5
C20_FloorThreshold ==
  (pc = "idle" /\ flexible_call # None) =>
    LET n == Len(flexible_call.expr_tokens)
    IN /\ flexible_call.returned[1] =
            (flexible_call.matches >= Max(2, (7 * n) \div 10))
       /\ flexible_call.matches <= n
       /\ flexible_call.matches <= Len(flexible_call.window_tokens)

----------------------------------------------------------------------------
(* Claims about the rule-based stemmers *)

Vowels == {"a", "i^", "o", "u", "e", "i", "o^", "u^"}

\* the last vowel of the stem, None for a stem without vowel
LastVowel(stem) ==
  LET at == {i \in 1..Len(stem) : stem[i] \in Vowels}
  IN IF at = {} THEN None ELSE Some(stem[CHOOSE i \in at : \A j \in at : j <= i])

\* the suffixes of the verbal table that _simple_verb_stem strips from word
Stripped(word) ==
  {s \in Range(verb_suffixes) : EndsWith(word, s) /\ Len(word) > Len(s) + 2}

\* C21: for every verbal suffix the verb stemmer strips, the infinitive it
\* adds is stem + "mak" when the last vowel of the stem is a back vowel and
\* stem + "mek" when it is a front vowel, whatever consonants follow the vowel
C21_VowelHarmony ==
  (pc = "idle" /\ stem_call # None) =>
    \A s \in Stripped(stem_call.word) :
      LET stem == DropLast(stem_call.word, Len(s))
          v == LastVowel(stem)
      IN v # None =>
           (IF v[1] \in BackVowels THEN stem \o <<"m", "a", "k">>
                                   ELSE stem \o <<"m", "e", "k">>)
             \in stem_call.returned[1].verb

\* what the verb stemmer does: the last character of the stem decides, so a
\* stem that ends in a consonant gets "mek"
C21_LastCharacter ==
  (pc = "idle" /\ stem_call # None) =>
    \A s \in Stripped(stem_call.word) :
      LET stem == DropLast(stem_call.word, Len(s))
      IN (IF stem[Len(stem)] \in BackVowels THEN stem \o <<"m", "a", "k">>
                                            ELSE stem \o <<"m", "e", "k">>)
           \in stem_call.returned[1].verb

\* the stem is in stems together with one of its two infinitives
WithInfinitive(stem, stems) ==
  /\ stem \in stems
  /\ stem \o <<"m", "a", "k">> \in stems \/ stem \o <<"m", "e", "k">> \in stems

\* C22: for every word of four characters or more and every suffix of the
\* verbal table the word ends with that leaves a stem of two characters or
\* more, the verb stemmer returns the stem and the stem with an infinitive
\* suffix
C22_StemOfTwo ==
  (pc = "idle" /\ stem_call # None /\ Len(stem_call.word) >= 4) =>
    \A s \in Range(verb_suffixes) :
      (EndsWith(stem_call.word, s) /\ Len(stem_call.word) - Len(s) >= 2) =>
        WithInfinitive(DropLast(stem_call.word, Len(s)), stem_call.returned[1].verb)

\* what the verb stemmer does: the same for the suffixes that leave a stem of
\* three characters or more, and nothing else is returned but the word
\* itself when there is no such suffix
C22_StemOfThree ==
  (pc = "idle" /\ stem_call # None /\ Len(stem_call.word) >= 4) =>
    LET word == stem_call.word
        verb == stem_call.returned[1].verb
        cut == {DropLast(word, Len(s)) :
                  s \in {x \in Range(verb_suffixes) :
                           EndsWith(word, x) /\ Len(word) - Len(x) >= 3}}
    IN /\ \A stem \in cut : WithInfinitive(stem, verb)
       /\ \A r \in verb :
            \/ r \in cut
            \/ \E stem \in cut : r \in {stem \o <<"m", "a", "k">>, stem \o <<"m", "e", "k">>}
            \/ cut = {} /\ r = word

\* C23: for every word of three characters or more the noun stemmer returns
\* exactly the stems word minus s, for the suffixes s of the nominal table the
\* word ends with that leave two characters or more; it returns the word
\* alone exactly when there is no such suffix; and a word made of a root of
\* two characters or more and a suffix of the table has that root among the
\* stems returned
C23_NounStems ==
  (pc = "idle" /\ stem_call # None /\ Len(stem_call.word) >= 3) =>
    LET word == stem_call.word
        noun == stem_call.returned[1].noun
        leaving == {s \in Range(noun_suffixes) :
                      EndsWith(word, s) /\ Len(word) - Len(s) >= 2}
    IN /\ leaving # {} => noun = {DropLast(word, Len(s)) : s \in leaving}
       /\ noun = {word} <=> leaving = {}
       /\ \A r \in Roots, s \in Range(noun_suffixes) :
            (Len(r) >= 2 /\ word = r \o s) => r \in noun

\* the noun stemmer has been called on "evde": "ev" and "evd" are returned
C23_Witness ==
  /\ pc = "idle"
  /\ stem_call # None
  /\ stem_call.word = R_ev \o <<"d", "e">>
  /\ stem_call.returned[1].noun = {R_ev, R_ev \o <<"d">>}

----------------------------------------------------------------------------
(* Claims about the spans of token-window mode *)

----------------------------------------------------------------------------
(* Claims about the threads of calls that timed out *)

----------------------------------------------------------------------------
(* Claims about concurrent callers *)

\* the callers that have counted on the counter k
Took(k) == {c \in Callers : k \in callers[c].took}

\* every caller has returned
AllReturned == \A c \in Callers : callers[c].at = "returned"

\* C26: when every concurrent caller has returned, each counter equals the
\* number of calls that counted on it: calls the number of calls that
\* missed the cache, and timeouts, errors, successes and fallbacks the number
\* of calls that took that path
C26_NoLostIncrement ==
  (pc = "concurrent" /\ AllReturned) =>
    \A k \in Counters : _zeyrek_stats[k] = Cardinality(Took(k))

\* what the code keeps: a counter is never above the number of calls that
\* counted on it, and is at least one as soon as one of them has
C26_AtMostTaken ==
  (pc = "concurrent" /\ AllReturned) =>
    \A k \in Counters :
      /\ _zeyrek_stats[k] <= Cardinality(Took(k))
      /\ Took(k) # {} => _zeyrek_stats[k] >= 1

----------------------------------------------------------------------------
(* Claims about the window size *)

----------------------------------------------------------------------------
(* Claims about what overlap resolution discards *)

\* the candidates are spans of one character or more, as the two passes
\* and exact_match give them
ProperCandidates == \A c \in Range(candidates) : c.span[1] < c.span[2]

\* C28: when _remove_overlaps has returned, every candidate that is not in
\* the result overlaps a match of the result whose span is at least as long
C28_Covered ==
  (pc = "idle" /\ candidates # <<>> /\ ProperCandidates) =>
    \A c \in Range(candidates) \ Range(matches) :
      \E k \in Range(matches) :
        /\ Overlap(c.span[1], c.span[2], k.span[1], k.span[2])
        /\ SpanLength(k) >= SpanLength(c)

\* what the code keeps: every candidate that is not in the result overlaps
\* another candidate whose span is at least as long, in the result or not
C28_Contested ==
  (pc = "idle" /\ candidates # <<>> /\ ProperCandidates) =>
    \A i \in 1..Len(candidates) :
      candidates[i] \notin Range(matches) =>
        \E j \in 1..Len(candidates) :
          /\ j # i
          /\ Overlap(candidates[i].span[1], candidates[i].span[2],
                     candidates[j].span[1], candidates[j].span[2])
          /\ SpanLength(candidates[j]) >= SpanLength(candidates[i])

----------------------------------------------------------------------------
(* Claims about how often the analyzer is initialized *)

\* C29: the initialization of the analyzer is begun at most once: a thread
\* enters it only when no thread is in it and none has ended it before
C29_AtMostOnce ==
  [][Initializing' > Initializing =>
       (Initializing = 0 /\ _analyzer = "None" /\ _zeyrek_available = "None")]_vars

\* what the code keeps: a thread enters the initialization only while both
\* globals are still None, whatever other threads are in it
C29_OnlyWhileUnset ==
  [][Initializing' > Initializing =>
       (_analyzer = "None" /\ _zeyrek_available = "None")]_vars

----------------------------------------------------------------------------
(* Claims about the counters of a single caller *)

\* successes + timeouts + errors of the counters stats
Outcome(stats) == stats.successes + stats.timeouts + stats.errors

\* the step is a reset_zeyrek_stats call
IsReset == pc = "idle" /\ pc' = "idle" /\ _zeyrek_stats' = ZeroStats /\ UNCHANGED _lemma_cache

\* C30: whatever get_all_lemmas, get_zeyrek_stats, reset_zeyrek_stats and
\* clear_lemma_cache calls one caller makes, successes + timeouts + errors
\* and fallbacks never exceed calls and no counter is negative; a step that
\* is not a reset lowers no counter; and a get_all_lemmas call raises calls by
\* one at most, when it begins, and afterwards fallbacks by one at most and
\* one at most of successes, timeouts and errors, by one
C30_Counters ==
  /\ [](/\ Outcome(_zeyrek_stats) <= _zeyrek_stats.calls
        /\ _zeyrek_stats.fallbacks <= _zeyrek_stats.calls
        /\ \A k \in Counters : _zeyrek_stats[k] >= 0)
  /\ [][IsReset \/ \A k \in Counters : _zeyrek_stats'[k] >= _zeyrek_stats[k]]_vars
  /\ [][pc = "idle" =>
          \/ IsReset
          \/ /\ _zeyrek_stats'.calls - _zeyrek_stats.calls \in {0, 1}
             /\ \A k \in Counters \ {"calls"} : _zeyrek_stats'[k] = _zeyrek_stats[k]]_vars
  /\ [][pc = "join" =>
          /\ _zeyrek_stats'.calls = _zeyrek_stats.calls
          /\ Outcome(_zeyrek_stats') - Outcome(_zeyrek_stats) \in {0, 1}
          /\ _zeyrek_stats'.fallbacks - _zeyrek_stats.fallbacks \in {0, 1}]_vars

\* a call has timed out and has been counted, the counters have been read,
\* and the cache has been cleared since
C30_Witness ==
  /\ pc = "idle"
  /\ _zeyrek_stats = [ZeroStats EXCEPT !.calls = 1, !.timeouts = 1, !.fallbacks = 1]
  /\ held_stats # None
  /\ _lemma_cache = <<>>

====
